---- MODULE Spec2Model ----
(***************************************************************************)
(* Model of the incremental OLTP -> OLAP reconciliation pipeline of        *)
(* ETL/etl.py: run ledger, validators, SCD2 dimension synchronisation,     *)
(* stock-history and transaction loaders, and the transactional staging    *)
(* of main().                                                              *)
(*                                                                         *)
(* Encoding.  A calendar date is the day number d of 2026-01-d; the        *)
(* canonical string 'YYYY-MM-DD' of a date is represented by the same      *)
(* number (string comparison of canonical dates is date comparison).       *)
(* A source transaction carries its date as a string in some format,       *)
(* represented as [fmt, day].  SQL NULL / Python None is NULL.             *)
(* A table with an AUTOINCREMENT key is a sequence whose index is the key. *)
(* An amount of money (price, total_price) is its number of cents.         *)
(* db is the committed content of the OLAP store, conn is what the single  *)
(* connection sees (committed content plus its open transaction).          *)
(***************************************************************************)
EXTENDS Integers, Sequences, FiniteSets, TLC

\* ------------------------------------------------------------------ bounds
MaxRuns == 2

\* longest batch handed to the validators on their own
MaxBatch == 2

NULL == 0 - 1

\* source dates and join dates: days of January 2026
Days == 1..2

\* ------------------------------------------------------- source data sets
JoinDates == {1, 3}

SourceUser(id, name, email, join_date) ==
  [user_id |-> id, name |-> name, email |-> email, join_date |-> join_date]

SourceProduct(id, name, category, price, stock) ==
  [product_id |-> id, name |-> name, category |-> category, price |-> price, stock |-> stock]

SourceTransaction(id, date, uid, pid, quantity, total, payment_type, status) ==
  [tx_id |-> id, date |-> date, user_id |-> uid, product_id |-> pid,
   quantity |-> quantity, total_price |-> total, payment_type |-> payment_type,
   status |-> status]

DashDate(d) == [fmt |-> "dash", day |-> d]

\* ------------------------------------------------------------ pure helpers
get_date_id(d) == 2026 * 10000 + 1 * 100 + d

Strip(s) == IF s = " " THEN "" ELSE s

LowerKeepsCase(s) == s

Lower(s) ==
  CASE s = "VISA" -> "visa"
    [] s = "Visa" -> "visa"
    [] s = "SUCCESS" -> "success"
    [] s = "Failed" -> "failed"
    [] OTHER -> s

EmailPatternMatch(e) == e \in {"ann@x.io", "bob@x.io"}

valid_payment_types == {"visa", "mastercard", "wire transfer", "other"}
valid_statuses == {"success", "failed"}

\* The date parsing of validate_transactions.  A date string is its spelling
\* (fmt) and the day it names: "dash" 2026-01-01, "slash" 2026/01/01, "iso_t"
\* 2026-01-01T10:00:00, "compact" 20260101, "t_junk" a dash date followed by
\* "T" and any text that is no time of day (2026-01-01Tnoon), "text" anything
\* else (Jan 1 2026).  Of a string that contains "T" only the part before the
\* "T" is parsed.
ParseDate(s) ==
  IF s.fmt \in {"dash", "slash", "iso_t", "compact", "t_junk"} THEN s.day ELSE NULL

Abs(x) == IF x < 0 THEN 0 - x ELSE x

\* Amounts <<total_price, quantity, price>> whose unit price is exactly 0.01
\* away from the catalog price and for which the double-precision value of
\* abs(total_price / quantity - expected_price) is above the double 0.01
\* (e.g. abs(1.01 / 1 - 1.0) = 0.010000000000000009); for the other such
\* amounts it is below (e.g. abs(10.01 / 1 - 10.0) = 0.009999999999999787).
\* Tabulated for the catalog prices 0.05, 0.10, 0.20, 1.00 and 10.00 and
\* quantities 1 to 3.
FloatAboveCent ==
  {<<4, 1, 5>>, <<8, 2, 5>>, <<12, 3, 5>>, <<9, 1, 10>>, <<18, 2, 10>>,
   <<19, 1, 20>>, <<38, 2, 20>>, <<57, 3, 20>>,
   <<101, 1, 100>>, <<99, 1, 100>>, <<202, 2, 100>>, <<198, 2, 100>>, <<303, 3, 100>>}

\* abs(total_price / quantity - expected_price) > 0.01 in double precision,
\* for quantity > 0: away from the boundary the rounding error cannot change
\* the comparison, on the boundary the table decides.
price_mismatch(total_price, quantity, expected_price) ==
  LET off == Abs(total_price - expected_price * quantity)
  IN IF off = quantity
     THEN <<total_price, quantity, expected_price>> \in FloatAboveCent
     ELSE off > quantity

MetricNames ==
  {"orphan_user_tx", "orphan_product_tx", "qty_zero_tx", "qty_negative_tx",
   "price_ge_10000_product", "price_mismatch_tx", "invalid_payment_type_tx",
   "invalid_status_tx", "bad_date_format_tx", "duplicate_tx_id",
   "invalid_user_records", "negative_stock_product"}

\* An etl_error_log row (message and created_at carry no information here).
ErrorEntry(entity, table_name, record_id, error_type, severity) ==
  [entity |-> entity, table_name |-> table_name, record_id |-> ToString(record_id),
   error_type |-> error_type, severity |-> severity]

\* ------------------------------------------------------------- validators
\* Each validator returns the accepted list, the rejected list and the
\* log_error calls it makes, in order.
\* Mutant: user validation returns no rejected list.
ValidateUsersDropsRejected(users) ==
  LET ok(user) == /\ Strip(user.name) # ""
                  /\ EmailPatternMatch(user.email)
                  /\ user.join_date # NULL
  IN [valid |-> SelectSeq(users, ok), rejected |-> << >>, entries |-> << >>]

RECURSIVE validate_users(_)
validate_users(users) ==
  IF users = << >> THEN [valid |-> << >>, rejected |-> << >>, entries |-> << >>]
  ELSE
    LET user == Head(users)
        rest == validate_users(Tail(users))
        bad(msg) == [valid |-> rest.valid,
                     rejected |-> <<user>> \o rest.rejected,
                     entries |-> <<ErrorEntry("user", "dim_user", user.user_id,
                                              "invalid_user", "error")>> \o rest.entries]
    IN  IF user.name = "" \/ Strip(user.name) = "" THEN bad("name")
        ELSE IF user.email = "" \/ ~EmailPatternMatch(user.email) THEN bad("email")
        ELSE IF user.join_date = NULL THEN bad("join_date")
        ELSE [rest EXCEPT !.valid = <<user>> \o rest.valid]

\* Mutant: product validation accepts every product.
AcceptAllProducts(products) ==
  [valid |-> products, rejected |-> << >>, entries |-> << >>]

RECURSIVE validate_products(_)
validate_products(products) ==
  IF products = << >> THEN [valid |-> << >>, rejected |-> << >>, entries |-> << >>]
  ELSE
    LET product == Head(products)
        rest == validate_products(Tail(products))
        bad(error_type) ==
          [valid |-> rest.valid,
           rejected |-> <<product>> \o rest.rejected,
           entries |-> <<ErrorEntry("product", "dim_product", product.product_id,
                                    error_type, "error")>> \o rest.entries]
    IN  IF product.price >= 10000 * 100 THEN bad("price_ge_10000")
        ELSE IF product.stock < 0 THEN bad("negative_stock")
        ELSE [rest EXCEPT !.valid = <<product>> \o rest.valid]

\* Mutant: the price check is reached whatever the quantity is.
ReachesPriceCheckAnyQuantity(t, valid_user_ids, valid_product_ids, product_prices) ==
  /\ t.user_id \in valid_user_ids
  /\ t.product_id \in valid_product_ids
  /\ t.product_id \in DOMAIN product_prices

\* validate_transactions evaluates total_price / quantity for t: no earlier
\* rule has left the loop body with continue, and the product has a price.
ReachesPriceCheck(t, valid_user_ids, valid_product_ids, product_prices) ==
  /\ t.user_id \in valid_user_ids
  /\ t.product_id \in valid_product_ids
  /\ t.quantity # 0
  /\ ~(t.quantity < 0)
  /\ (IF t.payment_type = "" THEN "" ELSE Lower(t.payment_type)) \in valid_payment_types
  /\ (IF t.status = "" THEN "" ELSE Lower(t.status)) \in valid_statuses
  /\ ParseDate(t.date) # NULL
  /\ t.product_id \in DOMAIN product_prices

\* DataValidator.validate_transactions evaluates total_price / quantity for
\* t: "product_id in product_prices and is_valid and quantity > 0".
DataValidator_ReachesPriceCheck(t, valid_user_ids, valid_product_ids, product_prices) ==
  /\ t.product_id \in DOMAIN product_prices
  /\ /\ t.user_id \in valid_user_ids
     /\ t.product_id \in valid_product_ids
     /\ ~(t.quantity = 0) /\ ~(t.quantity < 0)
     /\ (IF t.payment_type = "" THEN "" ELSE Lower(t.payment_type)) \in valid_payment_types
     /\ (IF t.status = "" THEN "" ELSE Lower(t.status)) \in valid_statuses
     /\ ParseDate(t.date) # NULL
  /\ t.quantity > 0

\* validate_transactions threads seen_tx_ids through the batch, front to back.
RECURSIVE validate_transactions(_, _, _, _, _)
validate_transactions(transactions, valid_user_ids, valid_product_ids, product_prices, seen_tx_ids) ==
  IF transactions = << >> THEN [valid |-> << >>, rejected |-> << >>, entries |-> << >>]
  ELSE
    LET t == Head(transactions)
        reject(error_type) ==
          LET rest == validate_transactions(Tail(transactions), valid_user_ids,
                                            valid_product_ids, product_prices, seen_tx_ids)
          IN [valid |-> rest.valid,
              rejected |-> <<t>> \o rest.rejected,
              entries |-> <<ErrorEntry("transaction", "fact_transactions", t.tx_id,
                                       error_type, "error")>> \o rest.entries]
        payment_type_normalized == IF t.payment_type = "" THEN "" ELSE Lower(t.payment_type)
        status_normalized == IF t.status = "" THEN "" ELSE Lower(t.status)
        parsed_date == ParseDate(t.date)
        mismatch ==
          /\ t.product_id \in DOMAIN product_prices
          /\ price_mismatch(t.total_price, t.quantity, product_prices[t.product_id])
        warn_price ==
          IF mismatch
          THEN <<ErrorEntry("transaction", "fact_transactions", t.tx_id, "price_mismatch", "warning")>>
          ELSE << >>
        warn_dup ==
          IF t.tx_id \in seen_tx_ids
          THEN <<ErrorEntry("transaction", "fact_transactions", t.tx_id, "duplicate_tx_id", "warning")>>
          ELSE << >>
        normalized_transaction ==
          [tx_id |-> t.tx_id, date |-> parsed_date, user_id |-> t.user_id,
           product_id |-> t.product_id, quantity |-> t.quantity,
           total_price |-> t.total_price, payment_type |-> payment_type_normalized,
           status |-> status_normalized]
    IN  IF t.user_id \notin valid_user_ids THEN reject("orphan_user")
        ELSE IF t.product_id \notin valid_product_ids THEN reject("orphan_product")
        ELSE IF t.quantity = 0 THEN reject("qty_zero")
        ELSE IF t.quantity < 0 THEN reject("qty_negative")
        ELSE IF payment_type_normalized \notin valid_payment_types THEN reject("invalid_payment_type")
        ELSE IF status_normalized \notin valid_statuses THEN reject("invalid_status")
        ELSE IF parsed_date = NULL THEN reject("bad_date_format")
        ELSE
          LET rest == validate_transactions(Tail(transactions), valid_user_ids,
                                            valid_product_ids, product_prices,
                                            seen_tx_ids \cup {t.tx_id})
          IN [valid |-> <<normalized_transaction>> \o rest.valid,
              rejected |-> rest.rejected,
              entries |-> warn_price \o warn_dup \o rest.entries]

\* ------------------------------------------- validation.py: DataValidator
\* DataValidator.log_error call, made when a rule fails
EntryIf(failed, entry) == IF failed THEN <<entry>> ELSE << >>

\* DataValidator.validate_users: every rule is evaluated for every user
RECURSIVE DataValidator_validate_users(_)
DataValidator_validate_users(users) ==
  IF users = << >> THEN [valid |-> << >>, rejected |-> << >>, entries |-> << >>]
  ELSE
    LET user == Head(users)
        rest == DataValidator_validate_users(Tail(users))
        entry == ErrorEntry("user", "users", user.user_id, "invalid_user", "error")
        logged == EntryIf(user.name = "" \/ Strip(user.name) = "", entry)
                    \o EntryIf(user.email = "" \/ ~EmailPatternMatch(user.email), entry)
                    \o EntryIf(user.join_date = NULL, entry)
    IN [valid |-> (IF logged = << >> THEN <<user>> ELSE << >>) \o rest.valid,
        rejected |-> (IF logged = << >> THEN << >> ELSE <<user>>) \o rest.rejected,
        entries |-> logged \o rest.entries]

\* DataValidator.validate_products
RECURSIVE DataValidator_validate_products(_)
DataValidator_validate_products(products) ==
  IF products = << >> THEN [valid |-> << >>, rejected |-> << >>, entries |-> << >>]
  ELSE
    LET product == Head(products)
        rest == DataValidator_validate_products(Tail(products))
        entry(error_type) ==
          ErrorEntry("product", "products", product.product_id, error_type, "error")
        logged == EntryIf(product.name = "" \/ Strip(product.name) = "",
                          entry("invalid_product"))
                    \o EntryIf(product.price >= 10000 * 100, entry("price_ge_10000"))
                    \o EntryIf(product.stock < 0, entry("negative_stock"))
    IN [valid |-> (IF logged = << >> THEN <<product>> ELSE << >>) \o rest.valid,
        rejected |-> (IF logged = << >> THEN << >> ELSE <<product>>) \o rest.rejected,
        entries |-> logged \o rest.entries]

\* DataValidator.validate_transactions: seen_tx_ids takes the id of every
\* transaction, accepted or not; the price check runs for accepted ones only.
RECURSIVE DataValidator_validate_transactions(_, _, _, _, _)
DataValidator_validate_transactions(transactions, valid_user_ids, valid_product_ids, product_prices, seen_tx_ids) ==
  IF transactions = << >> THEN [valid |-> << >>, rejected |-> << >>, entries |-> << >>]
  ELSE
    LET t == Head(transactions)
        rest == DataValidator_validate_transactions(Tail(transactions), valid_user_ids,
                                                    valid_product_ids, product_prices,
                                                    seen_tx_ids \cup {t.tx_id})
        entry(error_type, severity) ==
          ErrorEntry("transaction", "transactions", t.tx_id, error_type, severity)
        payment_type_normalized == IF t.payment_type = "" THEN "" ELSE Lower(t.payment_type)
        status_normalized == IF t.status = "" THEN "" ELSE Lower(t.status)
        parsed_date == ParseDate(t.date)
        errors == EntryIf(t.user_id \notin valid_user_ids, entry("orphan_user", "error"))
                    \o EntryIf(t.product_id \notin valid_product_ids,
                               entry("orphan_product", "error"))
                    \o EntryIf(t.quantity = 0, entry("qty_zero", "error"))
                    \o EntryIf(t.quantity < 0, entry("qty_negative", "error"))
                    \o EntryIf(payment_type_normalized \notin valid_payment_types,
                               entry("invalid_payment_type", "error"))
                    \o EntryIf(status_normalized \notin valid_statuses,
                               entry("invalid_status", "error"))
                    \o EntryIf(parsed_date = NULL, entry("bad_date_format", "error"))
        is_valid == errors = << >>
        warn_dup == EntryIf(t.tx_id \in seen_tx_ids, entry("duplicate_tx_id", "warning"))
        warn_price ==
          EntryIf(/\ t.product_id \in DOMAIN product_prices
                  /\ is_valid
                  /\ t.quantity > 0
                  /\ price_mismatch(t.total_price, t.quantity, product_prices[t.product_id]),
                  entry("price_mismatch", "warning"))
        normalized_transaction ==
          [tx_id |-> t.tx_id, date |-> parsed_date, user_id |-> t.user_id,
           product_id |-> t.product_id, quantity |-> t.quantity,
           total_price |-> t.total_price, payment_type |-> payment_type_normalized,
           status |-> status_normalized]
    IN [valid |-> (IF is_valid THEN <<normalized_transaction>> ELSE << >>) \o rest.valid,
        rejected |-> (IF is_valid THEN << >> ELSE <<t>>) \o rest.rejected,
        entries |-> errors \o warn_dup \o warn_price \o rest.entries]

\* product_prices = {product[0]: product[3] for product in valid}: the last
\* record of an id gives its price
PriceMap(valid) ==
  [pid \in {valid[k].product_id : k \in DOMAIN valid} |->
     LET last == CHOOSE k \in DOMAIN valid :
                   /\ valid[k].product_id = pid
                   /\ \A m \in DOMAIN valid : valid[m].product_id = pid => m <= k
     IN valid[last].price]

\* DataValidator.validate_all
DataValidator_validate_all(users, products, transactions) ==
  LET vu == DataValidator_validate_users(users)
      vp == DataValidator_validate_products(products)
      vt == DataValidator_validate_transactions(
              transactions,
              {vu.valid[k].user_id : k \in DOMAIN vu.valid},
              {vp.valid[k].product_id : k \in DOMAIN vp.valid},
              PriceMap(vp.valid), {})
  IN [users |-> vu, products |-> vp, transactions |-> vt,
      entries |-> vu.entries \o vp.entries \o vt.entries]

\* ------------------------------------------------------------------ state
VARIABLES
  db,                 \* committed content of the OLAP store
  conn,               \* content seen by conn_olap (db plus the open transaction)
  pc,                 \* position of main(): idle, validate, dim_user, dim_product,
                      \* stock, tx_begin, tx, summary, done
  today,              \* the source date of the run
  oltp_users, oltp_products, oltp_transactions,      \* fetched snapshot
  valid_users, valid_products, valid_transactions,   \* validator outputs
  new_transactions,   \* load_fact_transactions: batch after the existing-id filter
  i,                  \* records of the current stage already processed
  res,                \* the stage function's local counters
  counts,             \* main(): counts dictionary (absent key = 0)
  RUN_ID, ERROR_COUNT, WARNING_COUNT, DQ_METRICS,    \* module globals
  success,            \* main(): success flag
  exit_code,          \* process exit code (NULL while running)
  raised,             \* where the run's exception was raised ("none" if none)
  at_start,           \* history: the tables as committed when the run started
  workload            \* class of source data the runs of this behaviour draw from

vars == <<db, conn, pc, today, oltp_users, oltp_products, oltp_transactions,
          valid_users, valid_products, valid_transactions, new_transactions,
          i, res, counts, RUN_ID, ERROR_COUNT, WARNING_COUNT, DQ_METRICS,
          success, exit_code, raised, at_start, workload>>

EmptyStore ==
  [dim_user |-> << >>, dim_product |-> << >>, dim_date |-> << >>,
   fact_transactions |-> << >>, fact_stock_history |-> << >>,
   etl_run_log |-> << >>, etl_error_log |-> << >>]

ZeroRes == [inserted |-> 0, updated |-> 0, unchanged |-> 0, skipped |-> 0]

ZeroCounts ==
  [dim_user_inserted |-> 0, dim_product_inserted |-> 0,
   fact_stock_history_inserted |-> 0, fact_transactions_inserted |-> 0]

WriteStages == {"dim_user", "dim_product", "stock", "tx_begin", "tx"}

\* ------------------------------------------------------- source snapshots
Workloads == {"users", "products", "transactions", "rules"}

AnnUser == SourceUser(1, "ann", "ann@x.io", 1)
PenProduct(price, stock) == SourceProduct(1, "pen", "office", price, stock)
InkProduct == SourceProduct(2, "ink", "office", 5, 3)

\* fetch_oltp_users: ORDER BY user_id, user_id is the primary key
UserSnapshots(w) ==
  IF w = "users"
  THEN {<< >>, <<SourceUser(1, "", "ann@x.io", 1)>>}
         \cup {<<SourceUser(1, n, "ann@x.io", j)>> : n \in {"ann", "bob"}, j \in JoinDates}
  ELSE {<<AnnUser>>}

\* fetch_oltp_products: ORDER BY product_id, product_id is the primary key
ProductSnapshots(w) ==
  CASE w = "products" ->
         {<< >>, <<PenProduct(10, 5)>>, <<PenProduct(10, 7)>>, <<PenProduct(20, 5)>>,
          <<PenProduct(10000 * 100, 5)>>}
    [] w = "transactions" ->
         {<<PenProduct(p, 5), InkProduct>> : p \in {10, 20}}
    [] OTHER -> {<<PenProduct(10, 5)>>}

Purchase(id, d, pid) == SourceTransaction(id, DashDate(d), 1, pid, 1, 10, "visa", "success")

\* Mutant: the SELECT has no "WHERE t.date = ?" condition.
TransactionSnapshotsAllDays(w, d) ==
  UNION {{<<Purchase(e, e, 1)>>} : e \in Days}

\* fetch_oltp_transactions: WHERE date = today_str ORDER BY transaction_id;
\* transaction_id is not a key of the source table, so ids may repeat.
TransactionSnapshots(w, d) ==
  CASE w = "transactions" ->
         {<<Purchase(1, d, 1), t>> : t \in {Purchase(1, d, 1), Purchase(1, d, 2), Purchase(2, d, 1)}}
    [] w = "rules" ->
         {<<SourceTransaction(9, DashDate(d), 1, 1, 0, 0, "visa", "success"), Purchase(d, d, 1)>>}
    [] OTHER -> {<<Purchase(d, d, 1)>>}

\* The day the wall clock shows when a run for source date d starts
Clock(w, d) == IF w = "rules" THEN Days ELSE {d}

\* ----------------------------------------------------------------- ledger
\* log_error: bump the module counters and insert one etl_error_log row
\* through the connection.  L = [log, errors, warnings, metrics].
log_error(L, run_id, e) ==
  [log |-> Append(L.log, [run_id |-> run_id] @@ e),
   errors |-> IF e.severity = "error" THEN L.errors + 1 ELSE L.errors,
   warnings |-> IF e.severity = "error" THEN L.warnings ELSE L.warnings + 1,
   metrics |-> IF e.error_type \in DOMAIN L.metrics
               THEN [L.metrics EXCEPT ![e.error_type] = @ + 1]
               ELSE L.metrics]

RECURSIVE log_all(_, _, _)
log_all(L, run_id, entries) ==
  IF entries = << >> THEN L
  ELSE log_all(log_error(L, run_id, Head(entries)), run_id, Tail(entries))

Ledger == [log |-> conn.etl_error_log, errors |-> ERROR_COUNT,
           warnings |-> WARNING_COUNT, metrics |-> DQ_METRICS]

\* Mutant: the run row starts with a status of its own.
NewRunRowRunning(run_id, run_date, source_date) ==
  [run_id |-> run_id, run_date |-> run_date, source_date |-> source_date,
   status |-> "running", ended_at |-> NULL,
   rows_dim_user_inserted |-> 0, rows_dim_product_inserted |-> 0,
   rows_fact_transactions_inserted |-> 0, rows_fact_stock_history_inserted |-> 0,
   errors |-> 0, warnings |-> 0]

\* start_etl_run: INSERT the run row with status 'failed'; run_date is the day
\* datetime.now() gives, source_date the day of the argument
NewRunRow(run_id, run_date, source_date) ==
  [run_id |-> run_id, run_date |-> run_date, source_date |-> source_date,
   status |-> "failed", ended_at |-> NULL,
   rows_dim_user_inserted |-> 0, rows_dim_product_inserted |-> 0,
   rows_fact_transactions_inserted |-> 0, rows_fact_stock_history_inserted |-> 0,
   errors |-> 0, warnings |-> 0]

\* finish_etl_run: UPDATE etl_run_log ... WHERE run_id = RUN_ID (ended_at 0 is
\* an abstract wall-clock timestamp)
finish_etl_run(store, run_id, ok, cnt, errors, warnings) ==
  [store EXCEPT !.etl_run_log =
     [k \in DOMAIN @ |->
        IF @[k].run_id = run_id
        THEN [@[k] EXCEPT !.status = IF ok THEN "success" ELSE "failed",
                          !.ended_at = 0,
                          !.rows_dim_user_inserted = cnt.dim_user_inserted,
                          !.rows_dim_product_inserted = cnt.dim_product_inserted,
                          !.rows_fact_transactions_inserted = cnt.fact_transactions_inserted,
                          !.rows_fact_stock_history_inserted = cnt.fact_stock_history_inserted,
                          !.errors = errors,
                          !.warnings = warnings]
        ELSE @[k]]]

\* Mutant: the calendar row is inserted without the SELECT that looks for it.
EnsureDimDateUnchecked(dim_date, d) ==
  Append(dim_date, [date_id |-> get_date_id(d), full_date |-> d])

\* ensure_dim_date: insert the calendar row unless its date_id is present
ensure_dim_date(dim_date, d) ==
  IF \E k \in DOMAIN dim_date : dim_date[k].date_id = get_date_id(d)
  THEN dim_date
  ELSE Append(dim_date, [date_id |-> get_date_id(d), full_date |-> d])

\* Mutant: commit() makes nothing durable.
CommitNothing(pending, committed) == committed

\* conn_olap.commit(): the committed content afterwards
Commit(pending, committed) == pending

\* Mutant: rollback() leaves the open transaction in place.
RollbackKeeps(pending, committed) == pending

\* conn_olap.rollback(): the content the connection sees afterwards
Rollback(pending, committed) == committed

\* ------------------------------------------------------------------- Init
Init ==
  /\ workload \in Workloads
  /\ db = EmptyStore
  /\ conn = EmptyStore
  /\ pc = "idle"
  /\ today = NULL
  /\ oltp_users = << >> /\ oltp_products = << >> /\ oltp_transactions = << >>
  /\ valid_users = << >> /\ valid_products = << >> /\ valid_transactions = << >>
  /\ new_transactions = << >>
  /\ i = 0
  /\ res = ZeroRes
  /\ counts = ZeroCounts
  /\ RUN_ID = NULL
  /\ ERROR_COUNT = 0
  /\ WARNING_COUNT = 0
  /\ DQ_METRICS = [m \in MetricNames |-> 0]
  /\ success = FALSE
  /\ exit_code = NULL
  /\ raised = "none"
  /\ at_start = EmptyStore

\* Mutant: the final sys.exit(1) is missing.
ExitCodeAlwaysZero(ok) == IF ok THEN 0 ELSE 0

\* main(): "if not success: sys.exit(1)"; a run that ends normally exits 0
ExitCode(ok) == IF ok THEN 0 ELSE 1

\* ---------------------------------------------------------------- actions
\* main() up to the fetch: a fresh process parses the date, start_etl_run
\* inserts and commits the run row, ensure_dim_date(today) is committed and
\* the source snapshot is fetched.
StartRun ==
  /\ pc \in {"idle", "done"}
  /\ Len(db.etl_run_log) < MaxRuns
  /\ \E d \in Days, us \in UserSnapshots(workload), ps \in ProductSnapshots(workload) :
       \E ts \in TransactionSnapshots(workload, d), now \in Clock(workload, d) :
         LET run_id == Len(db.etl_run_log) + 1
             started == [db EXCEPT !.etl_run_log = Append(@, NewRunRow(run_id, now, d))]
             dated == [started EXCEPT !.dim_date = ensure_dim_date(@, d)]
         IN /\ today' = d
            /\ RUN_ID' = run_id
            /\ db' = Commit(dated, db)
            /\ conn' = dated
            /\ oltp_users' = us
            /\ oltp_products' = ps
            /\ oltp_transactions' = ts
  /\ pc' = "validate"
  /\ valid_users' = << >> /\ valid_products' = << >> /\ valid_transactions' = << >>
  /\ new_transactions' = << >>
  /\ i' = 0
  /\ res' = ZeroRes
  /\ counts' = ZeroCounts
  /\ ERROR_COUNT' = 0
  /\ WARNING_COUNT' = 0
  /\ DQ_METRICS' = [m \in MetricNames |-> 0]
  /\ success' = FALSE
  /\ exit_code' = NULL
  /\ raised' = "none"
  /\ at_start' = db
  /\ UNCHANGED workload

\* Mutant: the run row is inserted and committed before startup fails.
StartupFailAfterRunRow ==
  /\ pc \in {"idle", "done"}
  /\ Len(db.etl_run_log) < MaxRuns
  /\ pc' = "done"
  /\ today' = NULL
  /\ RUN_ID' = NULL
  /\ oltp_users' = << >> /\ oltp_products' = << >> /\ oltp_transactions' = << >>
  /\ valid_users' = << >> /\ valid_products' = << >> /\ valid_transactions' = << >>
  /\ new_transactions' = << >>
  /\ i' = 0
  /\ res' = ZeroRes
  /\ counts' = ZeroCounts
  /\ ERROR_COUNT' = 0
  /\ WARNING_COUNT' = 0
  /\ DQ_METRICS' = [m \in MetricNames |-> 0]
  /\ success' = FALSE
  /\ exit_code' = 1
  /\ raised' = "startup"
  /\ at_start' = db
  /\ db' = [db EXCEPT !.etl_run_log = Append(@, NewRunRow(Len(@) + 1, 1, 1))]
  /\ conn' = db'
  /\ UNCHANGED workload

\* main() lines 548-566: the date argument does not parse, or the stores
\* cannot be opened: sys.exit(1) before anything is written
StartupFail ==
  /\ pc \in {"idle", "done"}
  /\ pc' = "done"
  /\ today' = NULL
  /\ RUN_ID' = NULL
  /\ oltp_users' = << >> /\ oltp_products' = << >> /\ oltp_transactions' = << >>
  /\ valid_users' = << >> /\ valid_products' = << >> /\ valid_transactions' = << >>
  /\ new_transactions' = << >>
  /\ i' = 0
  /\ res' = ZeroRes
  /\ counts' = ZeroCounts
  /\ ERROR_COUNT' = 0
  /\ WARNING_COUNT' = 0
  /\ DQ_METRICS' = [m \in MetricNames |-> 0]
  /\ success' = FALSE
  /\ exit_code' = 1
  /\ raised' = "startup"
  /\ at_start' = db
  /\ UNCHANGED <<db, conn, workload>>

\* main() lines 568-580: the run row is committed, then ensure_dim_date or a
\* fetch raises: outer except; finally -> finish_etl_run(success = False);
\* sys.exit(1)
FetchRaise ==
  /\ pc \in {"idle", "done"}
  /\ Len(db.etl_run_log) < MaxRuns
  /\ \E d \in Days :
       LET run_id == Len(db.etl_run_log) + 1
           started == [db EXCEPT !.etl_run_log = Append(@, NewRunRow(run_id, d, d))]
           finished == finish_etl_run(started, run_id, FALSE, ZeroCounts, 0, 0)
       IN /\ today' = d
          /\ RUN_ID' = run_id
          /\ db' = Commit(finished, db)
          /\ conn' = finished
  /\ pc' = "done"
  /\ oltp_users' = << >> /\ oltp_products' = << >> /\ oltp_transactions' = << >>
  /\ valid_users' = << >> /\ valid_products' = << >> /\ valid_transactions' = << >>
  /\ new_transactions' = << >>
  /\ i' = 0
  /\ res' = ZeroRes
  /\ counts' = ZeroCounts
  /\ ERROR_COUNT' = 0
  /\ WARNING_COUNT' = 0
  /\ DQ_METRICS' = [m \in MetricNames |-> 0]
  /\ success' = FALSE
  /\ exit_code' = ExitCode(FALSE)
  /\ raised' = "fetch"
  /\ at_start' = db
  /\ UNCHANGED workload

\* main() lines 585-597: validate users and products, then the transactions
\* against the validated ids and the price map of the validated products.
main_validate(users, products, transactions) ==
  LET vu == validate_users(users)
      vp == validate_products(products)
      valid_user_ids == {vu.valid[k].user_id : k \in DOMAIN vu.valid}
      valid_product_ids == {vp.valid[k].product_id : k \in DOMAIN vp.valid}
      product_prices ==
        [pid \in valid_product_ids |->
           LET last == CHOOSE k \in DOMAIN vp.valid :
                         /\ vp.valid[k].product_id = pid
                         /\ \A m \in DOMAIN vp.valid :
                              vp.valid[m].product_id = pid => m <= k
           IN vp.valid[last].price]
      vt == validate_transactions(transactions, valid_user_ids, valid_product_ids,
                                  product_prices, {})
  IN [users |-> vu, products |-> vp, transactions |-> vt,
      entries |-> vu.entries \o vp.entries \o vt.entries]

\* The three validators; their log rows are inserted through the connection
\* and not committed here.
Validate ==
  /\ pc = "validate"
  /\ LET v == main_validate(oltp_users, oltp_products, oltp_transactions)
         L == log_all(Ledger, RUN_ID, v.entries)
     IN /\ valid_users' = v.users.valid
        /\ valid_products' = v.products.valid
        /\ valid_transactions' = v.transactions.valid
        /\ conn' = [conn EXCEPT !.etl_error_log = L.log]
        /\ ERROR_COUNT' = L.errors
        /\ WARNING_COUNT' = L.warnings
        /\ DQ_METRICS' = L.metrics
  /\ pc' = "dim_user"
  /\ UNCHANGED <<db, today, oltp_users, oltp_products, oltp_transactions,
                 new_transactions, i, res, counts, RUN_ID, success, exit_code,
                 raised, at_start, workload>>

\* ----------------------------------------------- SCD2 dimension upsert
\* SELECT ... WHERE user_id = ? AND current_flag = 1 (fetchone takes any match)
CurrentUserSks(dim_user, user_id) ==
  {k \in DOMAIN dim_user : dim_user[k].user_id = user_id /\ dim_user[k].current_flag = 1}

CurrentProductSks(dim_product, product_id) ==
  {k \in DOMAIN dim_product :
     dim_product[k].product_id = product_id /\ dim_product[k].current_flag = 1}

\* Mutant: the closing UPDATE sets end_date and leaves current_flag at 1.
CloseVersionKeepsFlag(dim, sk, d) ==
  [dim EXCEPT ![sk].end_date = d - 1]

\* Mutant: the closing UPDATE also rewrites start_date.
CloseVersionRewritesStart(dim, sk, d) ==
  [dim EXCEPT ![sk].end_date = d - 1, ![sk].current_flag = 0, ![sk].start_date = d - 1]

\* UPDATE ... SET end_date = today - 1 day, current_flag = 0 WHERE <sk> = ?
CloseVersion(dim, sk, d) ==
  [dim EXCEPT ![sk].end_date = d - 1, ![sk].current_flag = 0]

InsertUserVersion(dim_user, user, start_date) ==
  Append(dim_user,
         [user_sk |-> Len(dim_user) + 1, user_id |-> user.user_id, name |-> user.name,
          email |-> user.email, join_date |-> user.join_date,
          start_date |-> start_date, end_date |-> NULL, current_flag |-> 1])

InsertProductVersion(dim_product, product, start_date) ==
  Append(dim_product,
         [product_sk |-> Len(dim_product) + 1, product_id |-> product.product_id,
          name |-> product.name, category |-> product.category, price |-> product.price,
          start_date |-> start_date, end_date |-> NULL, current_flag |-> 1])

\* Mutant: the user comparison also covers join_date.
UpsertUserTracksJoinDate(dim_user, user, current, d) ==
  IF current = NULL
  THEN [dim |-> InsertUserVersion(dim_user, user, user.join_date), kind |-> "inserted"]
  ELSE IF \/ user.name # dim_user[current].name
          \/ user.email # dim_user[current].email
          \/ user.join_date # dim_user[current].join_date
  THEN [dim |-> InsertUserVersion(CloseVersion(dim_user, current, d), user, d),
        kind |-> "updated"]
  ELSE [dim |-> dim_user, kind |-> "unchanged"]

\* Mutant: a user without a current version is opened at the source date.
UpsertUserStartsToday(dim_user, user, current, d) ==
  IF current = NULL
  THEN [dim |-> InsertUserVersion(dim_user, user, d), kind |-> "inserted"]
  ELSE IF user.name # dim_user[current].name \/ user.email # dim_user[current].email
  THEN [dim |-> InsertUserVersion(CloseVersion(dim_user, current, d), user, d),
        kind |-> "updated"]
  ELSE [dim |-> dim_user, kind |-> "unchanged"]

\* Loop body of upsert_dim_user; current is the fetched surrogate key or NULL.
upsert_dim_user(dim_user, user, current, d) ==
  IF current = NULL
  THEN [dim |-> InsertUserVersion(dim_user, user, user.join_date), kind |-> "inserted"]
  ELSE IF user.name # dim_user[current].name \/ user.email # dim_user[current].email
  THEN [dim |-> InsertUserVersion(CloseVersion(dim_user, current, d), user, d),
        kind |-> "updated"]
  ELSE [dim |-> dim_user, kind |-> "unchanged"]

\* Mutant: a changed product has its current version closed and no new
\* version opened.
UpsertProductClosesOnly(dim_product, product, current, d) ==
  IF current = NULL
  THEN [dim |-> InsertProductVersion(dim_product, product, d), kind |-> "inserted"]
  ELSE IF \/ product.name # dim_product[current].name
          \/ product.category # dim_product[current].category
          \/ product.price # dim_product[current].price
  THEN [dim |-> CloseVersion(dim_product, current, d), kind |-> "updated"]
  ELSE [dim |-> dim_product, kind |-> "unchanged"]

\* Loop body of upsert_dim_product.
upsert_dim_product(dim_product, product, current, d) ==
  IF current = NULL
  THEN [dim |-> InsertProductVersion(dim_product, product, d), kind |-> "inserted"]
  ELSE IF \/ product.name # dim_product[current].name
          \/ product.category # dim_product[current].category
          \/ product.price # dim_product[current].price
  THEN [dim |-> InsertProductVersion(CloseVersion(dim_product, current, d), product, d),
        kind |-> "updated"]
  ELSE [dim |-> dim_product, kind |-> "unchanged"]

Bump(r, kind) == [r EXCEPT ![kind] = @ + 1]

FetchOne(matches) == IF matches = {} THEN {NULL} ELSE matches

UserStep ==
  /\ pc = "dim_user"
  /\ i < Len(valid_users)
  /\ \E current \in FetchOne(CurrentUserSks(conn.dim_user, valid_users[i + 1].user_id)) :
       LET r == upsert_dim_user(conn.dim_user, valid_users[i + 1], current, today)
       IN /\ conn' = [conn EXCEPT !.dim_user = r.dim]
          /\ res' = Bump(res, r.kind)
  /\ i' = i + 1
  /\ UNCHANGED <<db, pc, today, oltp_users, oltp_products, oltp_transactions,
                 valid_users, valid_products, valid_transactions, new_transactions,
                 counts, RUN_ID, ERROR_COUNT, WARNING_COUNT, DQ_METRICS, success,
                 exit_code, raised, at_start, workload>>

ProductStep ==
  /\ pc = "dim_product"
  /\ i < Len(valid_products)
  /\ \E current \in FetchOne(CurrentProductSks(conn.dim_product, valid_products[i + 1].product_id)) :
       LET r == upsert_dim_product(conn.dim_product, valid_products[i + 1], current, today)
       IN /\ conn' = [conn EXCEPT !.dim_product = r.dim]
          /\ res' = Bump(res, r.kind)
  /\ i' = i + 1
  /\ UNCHANGED <<db, pc, today, oltp_users, oltp_products, oltp_transactions,
                 valid_users, valid_products, valid_transactions, new_transactions,
                 counts, RUN_ID, ERROR_COUNT, WARNING_COUNT, DQ_METRICS, success,
                 exit_code, raised, at_start, workload>>

\* ------------------------------------------------------ stock history loader
\* SELECT stock FROM fact_stock_history WHERE product_sk = ?
\* ORDER BY date_id DESC LIMIT 1 (any row of the greatest date_id)
LastStockRows(fact_stock_history, product_sk) ==
  {k \in DOMAIN fact_stock_history :
     /\ fact_stock_history[k].product_sk = product_sk
     /\ \A m \in DOMAIN fact_stock_history :
          fact_stock_history[m].product_sk = product_sk
            => fact_stock_history[m].date_id <= fact_stock_history[k].date_id}

\* Loop body of load_fact_stock_history once the current surrogate key is
\* known; last is the fetched row number or NULL.
load_fact_stock_history(store, product, product_sk, last, d) ==
  IF last = NULL \/ store.fact_stock_history[last].stock # product.stock
  THEN [store |-> [store EXCEPT
                     !.dim_date = ensure_dim_date(@, d),
                     !.fact_stock_history =
                        Append(@, [product_sk |-> product_sk, date_id |-> get_date_id(d),
                                   stock |-> product.stock, load_date |-> d])],
        kind |-> "inserted"]
  ELSE [store |-> store, kind |-> "skipped"]

StockStep ==
  /\ pc = "stock"
  /\ i < Len(valid_products)
  /\ LET product == valid_products[i + 1]
         current == CurrentProductSks(conn.dim_product, product.product_id)
     IN IF current = {}
        THEN LET L == log_error(Ledger, RUN_ID,
                                ErrorEntry("product", "fact_stock_history", product.product_id,
                                           "orphan_product", "warning"))
             IN /\ conn' = [conn EXCEPT !.etl_error_log = L.log]
                /\ ERROR_COUNT' = L.errors
                /\ WARNING_COUNT' = L.warnings
                /\ DQ_METRICS' = L.metrics
                /\ res' = Bump(res, "skipped")
        ELSE /\ \E product_sk \in current :
                  \E last \in FetchOne(LastStockRows(conn.fact_stock_history, product_sk)) :
                    LET r == load_fact_stock_history(conn, product, product_sk, last, today)
                    IN /\ conn' = r.store
                       /\ res' = Bump(res, r.kind)
             /\ UNCHANGED <<ERROR_COUNT, WARNING_COUNT, DQ_METRICS>>
  /\ i' = i + 1
  /\ UNCHANGED <<db, pc, today, oltp_users, oltp_products, oltp_transactions,
                 valid_users, valid_products, valid_transactions, new_transactions,
                 counts, RUN_ID, success, exit_code, raised, at_start, workload>>

\* -------------------------------------------------------- transaction loader
\* Mutant: the batch is not filtered by the ids already loaded.
NewTransactionsUnfiltered(fact_transactions, batch) == batch

\* new_transactions = [tx for tx in valid_transactions if tx[0] not in existing_tx_ids]
NewTransactions(fact_transactions, batch) ==
  LET existing_tx_ids ==
        {fact_transactions[k].transaction_id : k \in DOMAIN fact_transactions}
      IsNew(tx) == tx.tx_id \notin existing_tx_ids
  IN SelectSeq(batch, IsNew)

\* Mutant: the lookup does not compare start_date with the transaction date.
VersionsAtIgnoringStart(dim, of_key, d) ==
  LET covering == {k \in of_key : dim[k].end_date = NULL \/ dim[k].end_date >= d}
  IN {k \in covering : \A m \in covering : dim[m].start_date <= dim[k].start_date}

\* WHERE <id> = ? AND start_date <= ? AND (end_date IS NULL OR end_date >= ?)
\* ORDER BY start_date DESC LIMIT 1 (any row of the greatest start_date)
VersionsAt(dim, of_key, d) ==
  LET covering == {k \in of_key :
                     /\ dim[k].start_date <= d
                     /\ (dim[k].end_date = NULL \/ dim[k].end_date >= d)}
  IN {k \in covering : \A m \in covering : dim[m].start_date <= dim[k].start_date}

UserVersionsAt(dim_user, user_id, d) ==
  VersionsAt(dim_user, {k \in DOMAIN dim_user : dim_user[k].user_id = user_id}, d)

\* Mutant: the product lookup has no "product_id = ?" condition.
ProductVersionsAtAnyProduct(dim_product, product_id, d) ==
  VersionsAt(dim_product, DOMAIN dim_product, d)

ProductVersionsAt(dim_product, product_id, d) ==
  VersionsAt(dim_product,
             {k \in DOMAIN dim_product : dim_product[k].product_id = product_id}, d)

\* Mutant: the table has no primary key; only the foreign keys are enforced.
IntegrityErrorForeignKeysOnly(store, row) ==
  \/ row.user_sk \notin DOMAIN store.dim_user
  \/ row.product_sk \notin DOMAIN store.dim_product
  \/ ~ \E k \in DOMAIN store.dim_date : store.dim_date[k].date_id = row.date_id

\* fact_transactions: PRIMARY KEY (transaction_id, product_sk), foreign keys
\* to dim_user, dim_product and dim_date (PRAGMA foreign_keys = ON)
IntegrityError(store, row) ==
  \/ \E k \in DOMAIN store.fact_transactions :
       /\ store.fact_transactions[k].transaction_id = row.transaction_id
       /\ store.fact_transactions[k].product_sk = row.product_sk
  \/ row.user_sk \notin DOMAIN store.dim_user
  \/ row.product_sk \notin DOMAIN store.dim_product
  \/ ~ \E k \in DOMAIN store.dim_date : store.dim_date[k].date_id = row.date_id

FactRow(tx, user_sk, product_sk, d) ==
  [transaction_id |-> tx.tx_id, user_sk |-> user_sk, product_sk |-> product_sk,
   date_id |-> get_date_id(tx.date), quantity |-> tx.quantity, total |-> tx.total_price,
   payment_type |-> tx.payment_type, status |-> tx.status, load_date |-> d]

TxBegin ==
  /\ pc = "tx_begin"
  /\ new_transactions' = NewTransactions(conn.fact_transactions, valid_transactions)
  /\ pc' = "tx"
  /\ UNCHANGED <<db, conn, today, oltp_users, oltp_products, oltp_transactions,
                 valid_users, valid_products, valid_transactions, i, res, counts,
                 RUN_ID, ERROR_COUNT, WARNING_COUNT, DQ_METRICS, success, exit_code,
                 raised, at_start, workload>>

\* Mutant: load_date is the day of the wall clock, not the source date.
LoadFactTransactionsClockDate(store, tx, user_sk, product_sk, d) ==
  LET dated == [store EXCEPT !.dim_date = ensure_dim_date(@, tx.date)]
      warning(error_type) ==
        <<ErrorEntry("transaction", "fact_transactions", tx.tx_id, error_type, "warning")>>
      row == FactRow(tx, user_sk, product_sk,
                     store.etl_run_log[Len(store.etl_run_log)].run_date)
  IN IF user_sk = NULL
     THEN [store |-> dated, entries |-> warning("orphan_user"), kind |-> "skipped"]
     ELSE IF product_sk = NULL
     THEN [store |-> dated, entries |-> warning("orphan_product"), kind |-> "skipped"]
     ELSE IF IntegrityError(dated, row)
     THEN [store |-> dated, entries |-> warning("duplicate_tx_id"), kind |-> "skipped"]
     ELSE [store |-> [dated EXCEPT !.fact_transactions = Append(@, row)],
           entries |-> << >>, kind |-> "inserted"]

\* Loop body of load_fact_transactions; user_sk / product_sk are the fetched
\* surrogate keys or NULL.  Returns the store, the log_error calls and the
\* counter to bump.
load_fact_transactions(store, tx, user_sk, product_sk, d) ==
  LET dated == [store EXCEPT !.dim_date = ensure_dim_date(@, tx.date)]
      warning(error_type) ==
        <<ErrorEntry("transaction", "fact_transactions", tx.tx_id, error_type, "warning")>>
      row == FactRow(tx, user_sk, product_sk, d)
  IN IF user_sk = NULL
     THEN [store |-> dated, entries |-> warning("orphan_user"), kind |-> "skipped"]
     ELSE IF product_sk = NULL
     THEN [store |-> dated, entries |-> warning("orphan_product"), kind |-> "skipped"]
     ELSE IF IntegrityError(dated, row)
     THEN [store |-> dated, entries |-> warning("duplicate_tx_id"), kind |-> "skipped"]
     ELSE [store |-> [dated EXCEPT !.fact_transactions = Append(@, row)],
           entries |-> << >>, kind |-> "inserted"]

TxStep ==
  /\ pc = "tx"
  /\ i < Len(new_transactions)
  /\ LET tx == new_transactions[i + 1]
     IN \E user_sk \in FetchOne(UserVersionsAt(conn.dim_user, tx.user_id, tx.date)) :
          \E product_sk \in FetchOne(ProductVersionsAt(conn.dim_product, tx.product_id, tx.date)) :
            LET r == load_fact_transactions(conn, tx, user_sk, product_sk, today)
                L == log_all(Ledger, RUN_ID, r.entries)
            IN /\ conn' = [r.store EXCEPT !.etl_error_log = L.log]
               /\ ERROR_COUNT' = L.errors
               /\ WARNING_COUNT' = L.warnings
               /\ DQ_METRICS' = L.metrics
               /\ res' = Bump(res, r.kind)
  /\ i' = i + 1
  /\ UNCHANGED <<db, pc, today, oltp_users, oltp_products, oltp_transactions,
                 valid_users, valid_products, valid_transactions, new_transactions,
                 counts, RUN_ID, success, exit_code, raised, at_start, workload>>

\* ------------------------------------------------------- stage boundaries
StageItems ==
  CASE pc = "dim_user" -> valid_users
    [] pc = "dim_product" -> valid_products
    [] pc = "stock" -> valid_products
    [] pc = "tx" -> new_transactions
    [] OTHER -> << >>

\* Mutant: the stock-history load follows the user sync directly.
NextStageSkipsProductSync ==
  CASE pc = "dim_user" -> "stock"
    [] pc = "stock" -> "tx_begin"
    [] OTHER -> "summary"

NextStage ==
  CASE pc = "dim_user" -> "dim_product"
    [] pc = "dim_product" -> "stock"
    [] pc = "stock" -> "tx_begin"
    [] OTHER -> "summary"

CountKey ==
  CASE pc = "dim_user" -> "dim_user_inserted"
    [] pc = "dim_product" -> "dim_product_inserted"
    [] pc = "stock" -> "fact_stock_history_inserted"
    [] OTHER -> "fact_transactions_inserted"

\* The stage function returned: counts[...] = results['inserted'];
\* conn_olap.commit()
StageCommit ==
  /\ pc \in {"dim_user", "dim_product", "stock", "tx"}
  /\ i = Len(StageItems)
  /\ counts' = [counts EXCEPT ![CountKey] = res.inserted]
  /\ db' = Commit(conn, db)
  /\ conn' = conn
  /\ pc' = NextStage
  /\ i' = 0
  /\ res' = ZeroRes
  /\ UNCHANGED <<today, oltp_users, oltp_products, oltp_transactions,
                 valid_users, valid_products, valid_transactions, new_transactions,
                 RUN_ID, ERROR_COUNT, WARNING_COUNT, DQ_METRICS, success, exit_code,
                 raised, at_start, workload>>

\* An exception inside a write stage: except -> conn_olap.rollback(); raise;
\* outer except; finally -> finish_etl_run(success = False) and its commit;
\* sys.exit(1)
StageRaise ==
  /\ pc \in WriteStages
  /\ LET rolled == Rollback(conn, db)
         finished == finish_etl_run(rolled, RUN_ID, FALSE, counts, ERROR_COUNT, WARNING_COUNT)
     IN /\ db' = Commit(finished, db)
        /\ conn' = finished
  /\ raised' = IF pc = "tx_begin" THEN "tx" ELSE pc
  /\ success' = FALSE
  /\ exit_code' = ExitCode(FALSE)
  /\ pc' = "done"
  /\ UNCHANGED <<today, oltp_users, oltp_products, oltp_transactions,
                 valid_users, valid_products, valid_transactions, new_transactions,
                 i, res, counts, RUN_ID, ERROR_COUNT, WARNING_COUNT, DQ_METRICS,
                 at_start, workload>>

\* An exception while validating (the k-th log INSERT fails): no rollback;
\* finally -> finish_etl_run(success = False), whose commit also commits the
\* log rows inserted so far; sys.exit(1)
ValidateRaise ==
  /\ pc = "validate"
  /\ LET entries == main_validate(oltp_users, oltp_products, oltp_transactions).entries
     IN \E k \in 1..Len(entries) :
          LET written == log_all(Ledger, RUN_ID, SubSeq(entries, 1, k - 1))
              counted == log_all(Ledger, RUN_ID, SubSeq(entries, 1, k))
              pending == [conn EXCEPT !.etl_error_log = written.log]
              finished == finish_etl_run(pending, RUN_ID, FALSE, counts,
                                         counted.errors, counted.warnings)
          IN /\ db' = Commit(finished, db)
             /\ conn' = finished
             /\ ERROR_COUNT' = counted.errors
             /\ WARNING_COUNT' = counted.warnings
             /\ DQ_METRICS' = counted.metrics
  /\ raised' = "validate"
  /\ success' = FALSE
  /\ exit_code' = ExitCode(FALSE)
  /\ pc' = "done"
  /\ UNCHANGED <<today, oltp_users, oltp_products, oltp_transactions,
                 valid_users, valid_products, valid_transactions, new_transactions,
                 i, res, counts, RUN_ID, at_start, workload>>

\* All stages committed: summary, success = True, finally ->
\* finish_etl_run(success = True); the process ends with exit code 0
FinishRun ==
  /\ pc = "summary"
  /\ LET finished == finish_etl_run(conn, RUN_ID, TRUE, counts, ERROR_COUNT, WARNING_COUNT)
     IN /\ db' = Commit(finished, db)
        /\ conn' = finished
  /\ success' = TRUE
  /\ exit_code' = ExitCode(TRUE)
  /\ pc' = "done"
  /\ UNCHANGED <<today, oltp_users, oltp_products, oltp_transactions,
                 valid_users, valid_products, valid_transactions, new_transactions,
                 i, res, counts, RUN_ID, ERROR_COUNT, WARNING_COUNT, DQ_METRICS,
                 raised, at_start, workload>>

\* An exception in the closing summary (a COUNT query or a print raises)
\* after every stage has committed: except -> success = False; finally ->
\* finish_etl_run(success = False); sys.exit(1)
SummaryRaise ==
  /\ pc = "summary"
  /\ LET finished == finish_etl_run(conn, RUN_ID, FALSE, counts, ERROR_COUNT, WARNING_COUNT)
     IN /\ db' = Commit(finished, db)
        /\ conn' = finished
  /\ raised' = "summary"
  /\ success' = FALSE
  /\ exit_code' = ExitCode(FALSE)
  /\ pc' = "done"
  /\ UNCHANGED <<today, oltp_users, oltp_products, oltp_transactions,
                 valid_users, valid_products, valid_transactions, new_transactions,
                 i, res, counts, RUN_ID, ERROR_COUNT, WARNING_COUNT, DQ_METRICS,
                 at_start, workload>>

Next ==
  \/ StartRun
  \/ StartupFail
  \/ FetchRaise
  \/ Validate
  \/ ValidateRaise
  \/ UserStep
  \/ ProductStep
  \/ StockStep
  \/ TxBegin
  \/ TxStep
  \/ StageCommit
  \/ StageRaise
  \/ SummaryRaise
  \/ FinishRun

Spec == Init /\ [][Next]_vars

\* ---------------------------------------- the validators on their own
\* Batches handed to the validators directly, of one kind at a time.
ValidatorWorkloads == {"v_users", "v_products", "v_transactions"}

UserRecords(id) ==
  {SourceUser(id, n, e, j) :
     n \in {"ann", "", " "}, e \in {"ann@x.io", "", "ann.x.io"}, j \in {1, NULL}}

ProductRecords(id) ==
  {SourceProduct(id, n, "office", p, st) :
     n \in {"pen", ""}, p \in {1000, 10000 * 100 - 1, 10000 * 100}, st \in {0 - 1, 0, 5}}

\* Batches of 1..MaxBatch records whose k-th record has id k (the ids are
\* primary keys of the source tables).
UserBatches ==
  UNION {{b \in [1..n -> UNION {UserRecords(id) : id \in 1..n}] :
            \A k \in 1..n : b[k] \in UserRecords(k)} : n \in 1..MaxBatch}

ProductBatches ==
  UNION {{b \in [1..n -> UNION {ProductRecords(id) : id \in 1..n}] :
            \A k \in 1..n : b[k] \in ProductRecords(k)} : n \in 1..MaxBatch}

\* A transaction of user 1 for product 1 that passes every rule
GoodTransaction(id, quantity, total) ==
  SourceTransaction(id, DashDate(1), 1, 1, quantity, total, "visa", "success")

\* Transactions that fail any combination of the blocking rules
RuleRecords ==
  {SourceTransaction(1, [fmt |-> f, day |-> 1], u, p, q, 1000 * Abs(q), pay, st) :
     f \in {"dash", "text"}, u \in {1, 2}, p \in {1, 2}, q \in {0 - 3, 0, 1, 3},
     pay \in {"VISA", "cash"}, st \in {"success", "pending"}}

\* Transactions that pass every blocking rule, with unit prices within two
\* cents of the catalog prices 1.00 and 10.00
PriceRecords ==
  {GoodTransaction(1, q, (c + o) * q) :
     q \in {1, 3}, c \in {100, 1000}, o \in {0 - 2, 0 - 1, 0, 1, 2}}

\* Other spellings of dates, payment types and statuses
SpellingRecords ==
  {SourceTransaction(1, [fmt |-> f, day |-> 1], 1, 1, 1, 1000, "visa", "success") :
     f \in {"slash", "iso_t", "compact", "t_junk"}}
    \cup {SourceTransaction(1, DashDate(1), 1, 1, 1, 1000, pay, "success") :
            pay \in {"Visa", "mastercard", "wire transfer", "other", ""}}
    \cup {SourceTransaction(1, DashDate(1), 1, 1, 1, 1000, "visa", st) :
            st \in {"SUCCESS", "Failed", "failed", ""}}

\* Transactions that precede the last one of a batch
EarlierRecords ==
  {GoodTransaction(1, 1, 1000), GoodTransaction(2, 1, 1000), GoodTransaction(1, 0, 0)}

TransactionBatches ==
  UNION {{b \in [1..n -> EarlierRecords \cup RuleRecords \cup PriceRecords \cup SpellingRecords] :
            /\ \A k \in 1..(n - 1) : b[k] \in EarlierRecords
            /\ b[n] \in RuleRecords \cup PriceRecords \cup SpellingRecords} :
         n \in 1..MaxBatch}

\* The state of main() before validation, in the first run, on 2026-01-01
ValidatorInit ==
  /\ workload \in ValidatorWorkloads
  /\ oltp_users \in (IF workload = "v_users" THEN UserBatches
                     ELSE {<<AnnUser>>})
  /\ oltp_products \in (CASE workload = "v_products" -> ProductBatches
                          [] workload = "v_transactions" ->
                               {<<PenProduct(c, 5)>> : c \in {100, 1000}}
                          [] OTHER -> {<<PenProduct(1000, 5)>>})
  /\ oltp_transactions \in (IF workload = "v_transactions" THEN TransactionBatches
                            ELSE {<<GoodTransaction(1, 1, 1000)>>})
  /\ LET started == [EmptyStore EXCEPT !.etl_run_log = <<NewRunRow(1, 1, 1)>>,
                                       !.dim_date = ensure_dim_date(<< >>, 1)]
     IN db = started /\ conn = started
  /\ pc = "validate"
  /\ today = 1
  /\ valid_users = << >> /\ valid_products = << >> /\ valid_transactions = << >>
  /\ new_transactions = << >>
  /\ i = 0
  /\ res = ZeroRes
  /\ counts = ZeroCounts
  /\ RUN_ID = 1
  /\ ERROR_COUNT = 0
  /\ WARNING_COUNT = 0
  /\ DQ_METRICS = [m \in MetricNames |-> 0]
  /\ success = FALSE
  /\ exit_code = NULL
  /\ raised = "none"
  /\ at_start = EmptyStore

\* DataValidator(conn_olap, RUN_ID).validate_all on the same batch: the log
\* rows go through the connection, the module counters are not touched
DataValidatorValidate ==
  /\ pc = "validate"
  /\ LET v == DataValidator_validate_all(oltp_users, oltp_products, oltp_transactions)
         rows == [k \in DOMAIN v.entries |-> [run_id |-> RUN_ID] @@ v.entries[k]]
     IN /\ valid_users' = v.users.valid
        /\ valid_products' = v.products.valid
        /\ valid_transactions' = v.transactions.valid
        /\ conn' = [conn EXCEPT !.etl_error_log = @ \o rows]
  /\ pc' = "DataValidator"
  /\ UNCHANGED <<db, today, oltp_users, oltp_products, oltp_transactions,
                 new_transactions, i, res, counts, RUN_ID, ERROR_COUNT, WARNING_COUNT,
                 DQ_METRICS, success, exit_code, raised, at_start, workload>>

ValidatorNext ==
  \/ Validate
  \/ DataValidatorValidate

ValidatorSpec == ValidatorInit /\ [][ValidatorNext]_vars


\* ================================================================ claims
UserKeys(dim_user) == {dim_user[k].user_id : k \in DOMAIN dim_user}
ProductKeys(dim_product) == {dim_product[k].product_id : k \in DOMAIN dim_product}

\* The runs recorded so far executed on strictly increasing source dates.
StrictlyIncreasingDates ==
  \A k \in 1..(Len(db.etl_run_log) - 1) :
    db.etl_run_log[k].source_date < db.etl_run_log[k + 1].source_date

\* C1: after any sequence of runs, failed and rolled-back ones included, every
\* business key of DimUser and of DimProduct has at most one row with
\* current_flag = 1 (in the committed store and in what the connection sees).
C1_AtMostOneCurrent ==
  \A store \in {db, conn} :
    /\ \A id \in UserKeys(store.dim_user) :
         Cardinality(CurrentUserSks(store.dim_user, id)) <= 1
    /\ \A id \in ProductKeys(store.dim_product) :
         Cardinality(CurrentProductSks(store.dim_product, id)) <= 1

\* A second run that failed after its user stage committed a new version:
\* the key has two versions and one of them is current.
C1_Witness ==
  /\ pc = "done"
  /\ raised = "dim_product"
  /\ Len(db.etl_run_log) = 2
  /\ Len(db.dim_user) = 2
  /\ db.dim_user[1].user_id = db.dim_user[2].user_id
  /\ Cardinality(CurrentUserSks(db.dim_user, db.dim_user[1].user_id)) = 1

\* Versions a and b of one business key (key[k] is the key of row k) are
\* consecutive in start_date order.
Consecutive(dim, key, a, b) ==
  /\ a # b
  /\ key[a] = key[b]
  /\ dim[a].start_date < dim[b].start_date
  /\ ~ \E c \in DOMAIN dim :
         /\ key[a] = key[c]
         /\ dim[a].start_date < dim[c].start_date
         /\ dim[c].start_date < dim[b].start_date

Contiguous(dim, key) ==
  \A a, b \in DOMAIN dim :
    Consecutive(dim, key, a, b)
      => dim[a].end_date # NULL /\ dim[a].end_date + 1 = dim[b].start_date

UserKeyOf(dim_user) == [k \in DOMAIN dim_user |-> dim_user[k].user_id]
ProductKeyOf(dim_product) == [k \in DOMAIN dim_product |-> dim_product[k].product_id]

\* C2: when runs execute on strictly increasing source dates, the versions of
\* every business key of DimUser and DimProduct, ordered by start_date, are
\* contiguous: version[i].end_date + 1 day = version[i+1].start_date.
C2_Contiguous ==
  StrictlyIncreasingDates
    => /\ Contiguous(db.dim_user, UserKeyOf(db.dim_user))
       /\ Contiguous(db.dim_product, ProductKeyOf(db.dim_product))

TxIds(fact_transactions) ==
  {fact_transactions[k].transaction_id : k \in DOMAIN fact_transactions}

\* What load_fact_transactions(batch) would do on store: no transaction that
\* passes the existing-id filter is inserted, whatever the fetches return.
ReloadInsertsNothing(store, batch, d) ==
  LET again == NewTransactions(store.fact_transactions, batch)
  IN \A k \in DOMAIN again :
       \A user_sk \in FetchOne(UserVersionsAt(store.dim_user, again[k].user_id, again[k].date)) :
         \A product_sk \in FetchOne(ProductVersionsAt(store.dim_product, again[k].product_id,
                                                      again[k].date)) :
           load_fact_transactions(store, again[k], user_sk, product_sk, d).kind # "inserted"

\* C3: loading a validated batch again is idempotent: a load of a batch whose
\* transactions are all in FactTransaction already inserts 0 rows and leaves
\* the table as it was, and loading the batch once more right after any
\* committed load would insert nothing.
C3_Idempotent ==
  [][(pc = "tx" /\ pc' = "summary")
       => /\ (\A k \in DOMAIN valid_transactions :
                 valid_transactions[k].tx_id \in TxIds(db.fact_transactions))
              => /\ db'.fact_transactions = db.fact_transactions
                 /\ counts'.fact_transactions_inserted = 0
          /\ ReloadInsertsNothing(db', valid_transactions, today)]_vars

\* The second run loads a batch that the first run loaded.
C3_Witness ==
  /\ pc = "summary"
  /\ Len(db.etl_run_log) = 2
  /\ valid_transactions # << >>
  /\ new_transactions = << >>
  /\ db.fact_transactions # << >>
  /\ db.fact_transactions = at_start.fact_transactions

\* C4: each transaction id has at most one FactTransaction row after any
\* sequence of runs (of two transactions of a batch that share an id the
\* second is not loaded).
C4_OneRowPerTxId ==
  \A a, b \in DOMAIN db.fact_transactions :
    db.fact_transactions[a].transaction_id = db.fact_transactions[b].transaction_id => a = b

DataTables == {"dim_user", "dim_product", "fact_stock_history", "fact_transactions"}

\* C5: when an exception is raised inside a write stage, the dimension and
\* fact rows that stage wrote in this run are absent from the store
\* afterwards, the rows committed by the earlier stages of the run are still
\* there, and the run's RunRecord ends with status failed.
C5_StageRollback ==
  [][(pc \in WriteStages /\ pc' = "done")
       => /\ \A T \in DataTables : db'[T] = db[T]
          /\ db'.etl_run_log[RUN_ID].status = "failed"
          /\ db'.etl_run_log[RUN_ID].ended_at # NULL]_vars

\* The product stage inserted a version and then failed; the user version
\* committed by the user stage of the same run is in the store.
C5_Witness ==
  /\ pc = "done"
  /\ raised = "dim_product"
  /\ res.inserted >= 1
  /\ at_start.dim_user = << >>
  /\ Len(db.dim_user) = 1
  /\ db.dim_product = at_start.dim_product
  /\ db.etl_run_log[RUN_ID].status = "failed"

\* C6 as claimed: stock-history and transaction loading are one transactional
\* unit, so when transaction loading raises, the FactStockHistory rows
\* appended earlier in the same run are rolled back too.
C6_StockAndTxOneUnit ==
  (pc = "done" /\ raised = "tx")
    => db.fact_stock_history = at_start.fact_stock_history

\* C6 amended: stock-history loading is committed on its own before
\* transaction loading starts: when transaction loading raises, only the
\* transaction rows are rolled back and the FactStockHistory rows appended
\* earlier in the same run stay in the store.
C6_StockCommittedSeparately ==
  (pc = "done" /\ raised = "tx")
    => /\ db.fact_transactions = at_start.fact_transactions
       /\ Len(db.fact_stock_history)
            = Len(at_start.fact_stock_history) + counts.fact_stock_history_inserted
       /\ SubSeq(db.fact_stock_history, 1, Len(at_start.fact_stock_history))
            = at_start.fact_stock_history

\* Transaction loading inserted a row and then raised, in a run whose stock
\* stage had appended a row.
C6_Witness ==
  /\ pc = "done"
  /\ raised = "tx"
  /\ counts.fact_stock_history_inserted >= 1
  /\ res.inserted >= 1
  /\ Len(db.fact_stock_history) > Len(at_start.fact_stock_history)

RunRows(store, run_id) ==
  LET OfRun(row) == row.run_id = run_id IN SelectSeq(store.etl_error_log, OfRun)

IsPrefix(s, t) == Len(s) <= Len(t) /\ SubSeq(t, 1, Len(s)) = s

\* C7: the rollback of a failing write stage discards only that stage's
\* writes: the ErrorLogEntry rows the Validator wrote earlier in the run are
\* persisted after the run has ended.
C7_ValidatorLogPersisted ==
  (pc = "done" /\ raised \in WriteStages)
    => LET entries == main_validate(oltp_users, oltp_products, oltp_transactions).entries
           rows == [k \in DOMAIN entries |-> [run_id |-> RUN_ID] @@ entries[k]]
       IN IsPrefix(rows, RunRows(db, RUN_ID))

\* FactStockHistory rows of a product (through the version they refer to)
StockRowsOf(store, product_id) ==
  {m \in DOMAIN store.fact_stock_history :
     store.dim_product[store.fact_stock_history[m].product_sk].product_id = product_id}

\* The stock levels most recently recorded for a product
LastRecordedStocks(store, product_id) ==
  {store.fact_stock_history[m].stock :
     m \in {n \in StockRowsOf(store, product_id) :
              \A o \in StockRowsOf(store, product_id) :
                store.fact_stock_history[o].date_id <= store.fact_stock_history[n].date_id}}

\* C8: across runs on strictly increasing dates, the stock stage appends a
\* FactStockHistory row for a validated product exactly when its snapshot
\* stock differs from the stock most recently recorded for that product, or
\* none was ever recorded.
C8_StockChangeOnly ==
  [][(pc = "stock" /\ pc' = "tx_begin" /\ StrictlyIncreasingDates)
       => \A k \in DOMAIN valid_products :
            LET p == valid_products[k]
                appended ==
                  \E m \in (Len(db.fact_stock_history) + 1)..Len(db'.fact_stock_history) :
                    m \in StockRowsOf(db', p.product_id)
            IN appended <=> p.stock \notin LastRecordedStocks(db, p.product_id)]_vars

RunRecordOK ==
  /\ \A k \in DOMAIN db.etl_run_log : db.etl_run_log[k].run_id = k
  /\ pc \notin {"idle", "done"}
       => /\ db.etl_run_log[RUN_ID].status = "failed"
          /\ db.etl_run_log[RUN_ID].ended_at = NULL
  /\ (pc = "done" /\ RUN_ID # NULL)
       => /\ db.etl_run_log[RUN_ID].ended_at # NULL
          /\ db.etl_run_log[RUN_ID].status = (IF raised = "none" THEN "success" ELSE "failed")

\* C9 as claimed: the final status of a run's RunRecord is success if and
\* only if validation and all write stages completed without an exception.
C9_SuccessIffStagesCompleted ==
  (pc = "done" /\ RUN_ID # NULL)
    => (db.etl_run_log[RUN_ID].status = "success"
          <=> raised \notin ({"fetch", "validate"} \cup WriteStages))

\* C9 amended: every run that passes startup creates exactly one RunRecord,
\* with status failed, and updates it exactly once, at run end; the final
\* status is success if and only if no exception was raised anywhere in the
\* run, the closing summary after the write stages included, and it is failed
\* otherwise.
C9_RunRecord ==
  [][/\ RunRecordOK'
     /\ Len(db'.etl_run_log)
          = Len(db.etl_run_log) + (IF pc \in {"idle", "done"} /\ RUN_ID' # NULL THEN 1 ELSE 0)
     /\ \A k \in DOMAIN db.etl_run_log :
          db.etl_run_log[k].ended_at # NULL => db'.etl_run_log[k] = db.etl_run_log[k]]_vars

\* A successful run followed by a run whose stages all committed and whose
\* closing summary raised.
C9_Witness ==
  /\ pc = "done"
  /\ raised = "summary"
  /\ Len(db.etl_run_log) = 2
  /\ db.etl_run_log[1].status = "success"
  /\ db.etl_run_log[2].status = "failed"
  /\ db.etl_run_log[2].ended_at # NULL

\* C10: the process exits with code 0 when the run succeeds, also when the
\* Validator rejected records, and with a non-zero code whenever an exception
\* occurred at startup, in validation or in a stage.
C10_ExitCode ==
  pc = "done" => (IF raised = "none" THEN exit_code = 0 ELSE exit_code \notin {0, NULL})

\* A successful run in which the Validator rejected a record.
C10_Witness ==
  /\ pc = "done"
  /\ exit_code = 0
  /\ ERROR_COUNT >= 1
  /\ Len(main_validate(oltp_users, oltp_products, oltp_transactions).users.rejected) >= 1

\* Version sk of dim, whose business key is key[sk], is a version of business
\* id `id` whose interval contains date d, and no version of that id whose
\* interval contains d starts later.
ResolvedAt(dim, key, sk, id, d) ==
  LET contains(k) == /\ key[k] = id
                     /\ dim[k].start_date <= d
                     /\ (dim[k].end_date = NULL \/ dim[k].end_date >= d)
  IN /\ sk \in DOMAIN dim
     /\ contains(sk)
     /\ \A k \in DOMAIN dim : contains(k) => dim[k].start_date <= dim[sk].start_date

FailedUserRules(user) ==
  {r \in {"name", "email", "join_date"} :
     \/ r = "name" /\ Strip(user.name) = ""
     \/ r = "email" /\ ~EmailPatternMatch(user.email)
     \/ r = "join_date" /\ user.join_date = NULL}

FailedProductRules(product) ==
  {r \in {"price", "stock"} :
     \/ r = "price" /\ ~(product.price < 10000 * 100)
     \/ r = "stock" /\ ~(product.stock >= 0)}

\* The spellings of a lower-case word that differ from it in case only
CaseVariants(word) ==
  CASE word = "visa" -> {"visa", "Visa", "VISA"}
    [] word = "success" -> {"success", "SUCCESS"}
    [] word = "failed" -> {"failed", "Failed"}
    [] OTHER -> {word}

FailedTransactionRules(t, user_ids, product_ids) ==
  {r \in {"user", "product", "quantity", "payment_type", "status", "date"} :
     \/ r = "user" /\ t.user_id \notin user_ids
     \/ r = "product" /\ t.product_id \notin product_ids
     \/ r = "quantity" /\ ~(t.quantity > 0)
     \/ r = "payment_type"
          /\ t.payment_type \notin UNION {CaseVariants(x) :
                                            x \in {"visa", "mastercard", "wire transfer", "other"}}
     \/ r = "status"
          /\ t.status \notin UNION {CaseVariants(x) : x \in {"success", "failed"}}
     \/ r = "date" /\ ParseDate(t.date) = NULL}

IdsOf(records, field) == {records[k][field] : k \in DOMAIN records}

\* Error-severity rows of the run's log for record id of an entity
ErrorRows(log, entity, id) ==
  {k \in DOMAIN log : /\ log[k].run_id = RUN_ID
                      /\ log[k].entity = entity
                      /\ log[k].severity = "error"
                      /\ log[k].record_id = ToString(id)}

\* The validator's log holds one error row per rule failed, for the records
\* of every id of the three batches.
OneErrorRowPerFailedRule ==
  /\ \A id \in IdsOf(oltp_users, "user_id") :
       Cardinality(ErrorRows(conn.etl_error_log, "user", id))
         = Cardinality({<<k, r>> \in (DOMAIN oltp_users) \X {"name", "email", "join_date"} :
                          /\ oltp_users[k].user_id = id
                          /\ r \in FailedUserRules(oltp_users[k])})
  /\ \A id \in IdsOf(oltp_products, "product_id") :
       Cardinality(ErrorRows(conn.etl_error_log, "product", id))
         = Cardinality({<<k, r>> \in (DOMAIN oltp_products) \X {"price", "stock"} :
                          /\ oltp_products[k].product_id = id
                          /\ r \in FailedProductRules(oltp_products[k])})
  /\ \A id \in IdsOf(oltp_transactions, "tx_id") :
       Cardinality(ErrorRows(conn.etl_error_log, "transaction", id))
         = Cardinality({<<k, r>> \in (DOMAIN oltp_transactions)
                                       \X {"user", "product", "quantity", "payment_type",
                                           "status", "date"} :
                          /\ oltp_transactions[k].tx_id = id
                          /\ r \in FailedTransactionRules(oltp_transactions[k],
                                                          IdsOf(valid_users, "user_id"),
                                                          IdsOf(valid_products, "product_id"))})

\* C12: the Validator logs exactly one error-severity entry for each rule a
\* record fails: a record that fails k blocking rules produces k error entries.
C12_OneEntryPerFailedRule ==
  pc = "dim_user" => OneErrorRowPerFailedRule


\* C13: every error log entry written by the pipeline has an error type that
\* is one of the twelve names of the taxonomy.
C13_ClosedTaxonomy ==
  \A k \in DOMAIN conn.etl_error_log : conn.etl_error_log[k].error_type \in MetricNames


\* The taxonomy name of the anomaly that the code logs under error_type
AnomalyType(error_type) ==
  CASE error_type = "invalid_user" -> "invalid_user_records"
    [] error_type = "price_ge_10000" -> "price_ge_10000_product"
    [] error_type = "negative_stock" -> "negative_stock_product"
    [] error_type = "orphan_user" -> "orphan_user_tx"
    [] error_type = "orphan_product" -> "orphan_product_tx"
    [] error_type = "qty_zero" -> "qty_zero_tx"
    [] error_type = "qty_negative" -> "qty_negative_tx"
    [] error_type = "invalid_payment_type" -> "invalid_payment_type_tx"
    [] error_type = "invalid_status" -> "invalid_status_tx"
    [] error_type = "bad_date_format" -> "bad_date_format_tx"
    [] error_type = "price_mismatch" -> "price_mismatch_tx"
    [] OTHER -> error_type

\* C14: at the end of a run, for each of the twelve error types, the named
\* data-quality counter equals the number of anomalies of that type that were
\* logged during the run.
C14_CountersMatchLog ==
  (pc = "done" /\ raised = "none")
    => \A m \in MetricNames :
         DQ_METRICS[m]
           = Cardinality({k \in DOMAIN db.etl_error_log :
                            /\ db.etl_error_log[k].run_id = RUN_ID
                            /\ AnomalyType(db.etl_error_log[k].error_type) = m})


\* The attributes of a transaction that validation leaves as they are
TxAttributes(t) == <<t.tx_id, t.user_id, t.product_id, t.quantity, t.total_price>>

\* The transactions of the batch that fail no blocking rule, in batch order
PassingTransactions ==
  LET passes(t) == FailedTransactionRules(t, IdsOf(valid_users, "user_id"),
                                          IdsOf(valid_products, "product_id")) = {}
  IN SelectSeq(oltp_transactions, passes)

\* Transaction k of the batch fails the quantity rule only, and an error row
\* of the given anomaly type is logged for its id.
QuantityRejectedAs(k, anomaly) ==
  /\ FailedTransactionRules(oltp_transactions[k], IdsOf(valid_users, "user_id"),
                            IdsOf(valid_products, "product_id")) = {"quantity"}
  /\ \E r \in ErrorRows(conn.etl_error_log, "transaction", oltp_transactions[k].tx_id) :
       AnomalyType(conn.etl_error_log[r].error_type) = anomaly

WarningRows(log, error_type, id) ==
  {k \in DOMAIN log : /\ log[k].run_id = RUN_ID
                      /\ log[k].entity = "transaction"
                      /\ log[k].severity = "warning"
                      /\ log[k].error_type = error_type
                      /\ log[k].record_id = ToString(id)}

\* The unit price of accepted transaction t is more than 0.01 (one cent) away
\* from the catalog price of its validated product, in exact arithmetic.
UnitPriceOff(t) ==
  \E k \in DOMAIN valid_products :
    /\ valid_products[k].product_id = t.product_id
    /\ Abs(t.total_price - valid_products[k].price * t.quantity) > t.quantity

\* C16: a transaction that passes all blocking rules and whose unit price
\* differs from the catalog price by more than 0.01 is accepted with exactly
\* one price-mismatch warning; a difference of at most 0.01 logs nothing.
C16_PriceMismatchWarning ==
  pc = "dim_user" =>
    \A id \in IdsOf(valid_transactions, "tx_id") :
      Cardinality(WarningRows(conn.etl_error_log, "price_mismatch", id))
        = Cardinality({k \in DOMAIN valid_transactions :
                         /\ valid_transactions[k].tx_id = id
                         /\ UnitPriceOff(valid_transactions[k])})


\* The positions of the batch whose transaction id occurred earlier in it
RepeatedPositions(id) ==
  {k \in DOMAIN oltp_transactions :
     /\ oltp_transactions[k].tx_id = id
     /\ \E j \in 1..(k - 1) : oltp_transactions[j].tx_id = id}

DuplicateWarnings ==
  /\ \A id \in IdsOf(oltp_transactions, "tx_id") :
       Cardinality(WarningRows(conn.etl_error_log, "duplicate_tx_id", id))
         = Cardinality(RepeatedPositions(id))
  /\ Len(valid_transactions) = Len(PassingTransactions)

\* C17: in validate_transactions, one duplicate_tx_id warning is logged for
\* every transaction whose id already occurred earlier in the same batch, and
\* being a duplicate never by itself rejects the record.
C17_DuplicateWarning ==
  pc = "dim_user" => DuplicateWarnings


\* The products of the batch with price < 10000 and stock >= 0, in batch order
PassingProducts ==
  LET passes(product) == FailedProductRules(product) = {}
  IN SelectSeq(oltp_products, passes)

\* C18: product validation accepts a product if and only if its price is
\* below 10000 and its stock is not negative; no other attribute of the
\* product influences acceptance.
C18_ProductAcceptance ==
  pc \in {"dim_user", "DataValidator"} => valid_products = PassingProducts


\* The record's tracked attributes equal those of every current version of
\* its business id, and there is such a version.
UserUnchanged(user) ==
  /\ CurrentUserSks(conn.dim_user, user.user_id) # {}
  /\ \A k \in CurrentUserSks(conn.dim_user, user.user_id) :
       conn.dim_user[k].name = user.name /\ conn.dim_user[k].email = user.email

ProductUnchanged(product) ==
  /\ CurrentProductSks(conn.dim_product, product.product_id) # {}
  /\ \A k \in CurrentProductSks(conn.dim_product, product.product_id) :
       /\ conn.dim_product[k].name = product.name
       /\ conn.dim_product[k].category = product.category
       /\ conn.dim_product[k].price = product.price

\* C19: a record whose tracked attributes (user: name, email; product: name,
\* category, price) equal those of its current version classifies as unchanged
\* and causes no write to the dimension, whatever its other attributes are.
C19_UnchangedNoWrite ==
  [][/\ (pc = "dim_user" /\ pc' = "dim_user" /\ i' = i + 1
           /\ UserUnchanged(valid_users[i + 1]))
          => (conn'.dim_user = conn.dim_user /\ res' = Bump(res, "unchanged"))
     /\ (pc = "dim_product" /\ pc' = "dim_product" /\ i' = i + 1
           /\ ProductUnchanged(valid_products[i + 1]))
          => (conn'.dim_product = conn.dim_product /\ res' = Bump(res, "unchanged"))]_vars

\* The product stage of a later run has passed a product whose stock was
\* never recorded before, and the dimension still has its single version.
C19_Witness ==
  /\ pc = "dim_product"
  /\ i = 1
  /\ res.unchanged = 1
  /\ Len(conn.dim_product) = 1
  /\ conn.fact_stock_history # << >>
  /\ \A k \in DOMAIN conn.fact_stock_history :
       conn.fact_stock_history[k].stock # valid_products[1].stock


\* The ids of the users and products of the batch that fail no blocking rule
PassingUserIds ==
  {oltp_users[k].user_id : k \in {m \in DOMAIN oltp_users : FailedUserRules(oltp_users[m]) = {}}}

PassingProductIds ==
  {oltp_products[k].product_id :
     k \in {m \in DOMAIN oltp_products : FailedProductRules(oltp_products[m]) = {}}}

\* Store S holds nothing of this run for the rejected users and products, and
\* every fact row of this run comes from a transaction that fails no rule.
QuarantinedIn(S) ==
  /\ \A k \in DOMAIN oltp_users, m \in DOMAIN S.dim_user :
       (FailedUserRules(oltp_users[k]) # {} /\ S.dim_user[m].user_id = oltp_users[k].user_id)
         => (m \in DOMAIN at_start.dim_user /\ S.dim_user[m] = at_start.dim_user[m])
  /\ \A k \in DOMAIN oltp_products :
       FailedProductRules(oltp_products[k]) # {}
         => /\ \A m \in DOMAIN S.dim_product :
                 S.dim_product[m].product_id = oltp_products[k].product_id
                   => (m \in DOMAIN at_start.dim_product
                         /\ S.dim_product[m] = at_start.dim_product[m])
            /\ StockRowsOf(S, oltp_products[k].product_id)
                 \subseteq DOMAIN at_start.fact_stock_history
  /\ \A m \in DOMAIN S.fact_transactions :
       m > Len(at_start.fact_transactions)
         => \E k \in DOMAIN oltp_transactions :
              /\ FailedTransactionRules(oltp_transactions[k], PassingUserIds,
                                        PassingProductIds) = {}
              /\ oltp_transactions[k].tx_id = S.fact_transactions[m].transaction_id
              /\ oltp_transactions[k].user_id
                   = S.dim_user[S.fact_transactions[m].user_sk].user_id
              /\ oltp_transactions[k].product_id
                   = S.dim_product[S.fact_transactions[m].product_sk].product_id

\* At the end of a run without exception the records that fail no rule have
\* been processed: each such user and product has a current version with its
\* tracked attributes, and each such transaction is in the fact table unless
\* no version of its user or product covers its date.
RemainingProcessed ==
  /\ \A k \in DOMAIN oltp_users :
       FailedUserRules(oltp_users[k]) = {}
         => \E m \in CurrentUserSks(db.dim_user, oltp_users[k].user_id) :
              /\ db.dim_user[m].name = oltp_users[k].name
              /\ db.dim_user[m].email = oltp_users[k].email
  /\ \A k \in DOMAIN oltp_products :
       FailedProductRules(oltp_products[k]) = {}
         => \E m \in CurrentProductSks(db.dim_product, oltp_products[k].product_id) :
              db.dim_product[m].price = oltp_products[k].price
  /\ \A k \in DOMAIN oltp_transactions :
       LET t == oltp_transactions[k]
       IN FailedTransactionRules(t, PassingUserIds, PassingProductIds) = {}
            => \/ t.tx_id \in TxIds(db.fact_transactions)
               \/ UserVersionsAt(db.dim_user, t.user_id, ParseDate(t.date)) = {}
               \/ ProductVersionsAt(db.dim_product, t.product_id, ParseDate(t.date)) = {}

\* C20: quarantine is effective for the whole run: a rejected user or product
\* causes no DimUser, DimProduct or FactStockHistory write in that run, a
\* transaction that references a rejected user or product or fails a blocking
\* rule itself gets no FactTransaction row in that run, and the remaining
\* records of the batch are still processed.
C20_Quarantine ==
  (pc \notin {"idle"} /\ RUN_ID # NULL) =>
    /\ QuarantinedIn(conn)
    /\ QuarantinedIn(db)
    /\ (pc = "done" /\ raised = "none") => RemainingProcessed

\* A second run ended without exception in which the product, loaded by the
\* first run, was rejected: its version and stock history are as before, its
\* transaction was not loaded, and the user of the batch was processed.
C20_Witness ==
  /\ pc = "done"
  /\ raised = "none"
  /\ RUN_ID = 2
  /\ Len(oltp_products) = 1
  /\ FailedProductRules(oltp_products[1]) # {}
  /\ CurrentProductSks(db.dim_product, oltp_products[1].product_id) # {}
  /\ StockRowsOf(db, oltp_products[1].product_id) # {}
  /\ Len(oltp_transactions) = 1
  /\ oltp_transactions[1].tx_id \notin TxIds(db.fact_transactions)
  /\ CurrentUserSks(db.dim_user, 1) # {}


\* Input transaction t is emitted as v: same id, user, product, quantity and
\* total, the date of one of the four formats rewritten to its day, payment
\* type and status lower-cased members of the valid sets.
NormalizedFrom(v, t) ==
  /\ TxAttributes(v) = TxAttributes(t)
  /\ t.date.fmt \in {"dash", "slash", "iso_t", "compact"}
  /\ v.date = t.date.day
  /\ v.payment_type \in {"visa", "mastercard", "wire transfer", "other"}
  /\ t.payment_type \in CaseVariants(v.payment_type)
  /\ v.status \in {"success", "failed"}
  /\ t.status \in CaseVariants(v.status)

\* C21: every accepted transaction is emitted in normalized form: its date is
\* the canonical rendering of an input date given in one of the four formats,
\* its payment type and status are lower-cased members of the valid sets; a
\* date matching none of the four formats is rejected.
C21_Normalized ==
  pc \in {"dim_user", "DataValidator"} =>
    \A k \in DOMAIN valid_transactions :
      \E j \in DOMAIN oltp_transactions :
        NormalizedFrom(valid_transactions[k], oltp_transactions[j])


\* ensure_dim_date applied to table dim_date for day d changes nothing when
\* the day is present, and a second call changes nothing after the first.
EnsureIdempotent(dim_date, d) ==
  /\ (\E k \in DOMAIN dim_date : dim_date[k].full_date = d)
       => ensure_dim_date(dim_date, d) = dim_date
  /\ ensure_dim_date(ensure_dim_date(dim_date, d), d) = ensure_dim_date(dim_date, d)
  /\ IsPrefix(dim_date, ensure_dim_date(dim_date, d))

\* C22: ensure_dim_date is idempotent and never mutates: a call for a date
\* already in DimDate leaves the table unchanged, two calls for a new date
\* give the same table as one, and no committed DimDate row is ever updated
\* or deleted.
C22_EnsureDimDate ==
  [][/\ IsPrefix(db.dim_date, db'.dim_date)
     /\ \A d \in Days : EnsureIdempotent(conn'.dim_date, d)]_vars

\* Two runs for the same source date have ended and the calendar has one row.
C22_Witness ==
  /\ pc = "done"
  /\ RUN_ID = 2
  /\ Len(db.dim_date) = 1
  /\ db.dim_date[1].full_date = today


Pick(seq, S) ==
  LET F[k \in 0..Len(seq)] ==
        IF k = 0 THEN << >>
        ELSE IF k \in S THEN Append(F[k - 1], seq[k]) ELSE F[k - 1]
  IN F[Len(seq)]

\* Lists accepted and rejected split the batch: some positions of the batch
\* give accepted, the other positions give rejected, each in batch order.
IsPartition(batch, accepted, rejected) ==
  \E S \in SUBSET DOMAIN batch :
    /\ Pick(batch, S) = accepted
    /\ Pick(batch, DOMAIN batch \ S) = rejected

TxAttributesOf(seq) == [k \in DOMAIN seq |-> TxAttributes(seq[k])]

\* What the validators that ran return for the batches of the state
Validated ==
  IF pc = "DataValidator"
  THEN DataValidator_validate_all(oltp_users, oltp_products, oltp_transactions)
  ELSE main_validate(oltp_users, oltp_products, oltp_transactions)

\* C24: each validator (users, products, transactions) returns a partition of
\* its batch: every input record is in exactly one of the accepted and the
\* rejected output, as many times as in the input and in input order.
C24_Partition ==
  pc \in {"dim_user", "DataValidator"} =>
    /\ IsPartition(oltp_users, valid_users, Validated.users.rejected)
    /\ IsPartition(oltp_products, valid_products, Validated.products.rejected)
    /\ IsPartition(TxAttributesOf(oltp_transactions), TxAttributesOf(valid_transactions),
                   TxAttributesOf(Validated.transactions.rejected))
    /\ \E S \in SUBSET DOMAIN oltp_transactions :
         Pick(oltp_transactions, S) = Validated.transactions.rejected

\* etl.py's validate_users rejected the first of two users and accepted the
\* second.
C24_Witness ==
  /\ pc = "dim_user"
  /\ Len(oltp_users) = 2
  /\ valid_users = <<oltp_users[2]>>
  /\ Validated.users.rejected = <<oltp_users[1]>>


\* The rows of table S.t that the run has added: those past the end of the
\* table as it was when the run started
AddedRows(S, t) == {k \in DOMAIN S[t] : k > Len(at_start[t])}

\* Every row that store S holds beyond the store of the run's start is made of
\* the source snapshot, the source date and the surrogate keys of S, and every
\* older row is as it was or, for a dimension row, closed at source date - 1.
FromSnapshotAndSourceDate(S) ==
  /\ \A k \in AddedRows(S, "dim_user") :
       \E j \in DOMAIN oltp_users :
         LET u == oltp_users[j]
         IN \E start \in {today, u.join_date} :
              S.dim_user[k] = [user_sk |-> k, user_id |-> u.user_id, name |-> u.name,
                               email |-> u.email, join_date |-> u.join_date,
                               start_date |-> start, end_date |-> NULL, current_flag |-> 1]
  /\ \A k \in AddedRows(S, "dim_product") :
       \E j \in DOMAIN oltp_products :
         LET p == oltp_products[j]
         IN S.dim_product[k] = [product_sk |-> k, product_id |-> p.product_id,
                                name |-> p.name, category |-> p.category, price |-> p.price,
                                start_date |-> today, end_date |-> NULL, current_flag |-> 1]
  /\ \A t \in {"dim_user", "dim_product"} :
       \A k \in DOMAIN at_start[t] :
         \/ S[t][k] = at_start[t][k]
         \/ S[t][k] = [at_start[t][k] EXCEPT !.end_date = today - 1, !.current_flag = 0]
  /\ \A k \in AddedRows(S, "dim_date") :
       \E d \in {today} \cup {oltp_transactions[j].date.day : j \in DOMAIN oltp_transactions} :
         S.dim_date[k] = [date_id |-> 2026 * 10000 + 100 + d, full_date |-> d]
  /\ \A k \in AddedRows(S, "fact_stock_history") :
       \E j \in DOMAIN oltp_products :
         LET row == S.fact_stock_history[k]
         IN /\ row = [product_sk |-> row.product_sk, date_id |-> 2026 * 10000 + 100 + today,
                      stock |-> oltp_products[j].stock, load_date |-> today]
            /\ S.dim_product[row.product_sk].product_id = oltp_products[j].product_id
  /\ \A k \in AddedRows(S, "fact_transactions") :
       \E j \in DOMAIN oltp_transactions :
         LET row == S.fact_transactions[k]
             t == oltp_transactions[j]
         IN /\ row = [transaction_id |-> t.tx_id, user_sk |-> row.user_sk,
                      product_sk |-> row.product_sk,
                      date_id |-> 2026 * 10000 + 100 + t.date.day,
                      quantity |-> t.quantity, total |-> t.total_price,
                      payment_type |-> row.payment_type, status |-> row.status,
                      load_date |-> today]
            /\ t.payment_type \in CaseVariants(row.payment_type)
            /\ t.status \in CaseVariants(row.status)
            /\ S.dim_user[row.user_sk].user_id = t.user_id
            /\ S.dim_product[row.product_sk].product_id = t.product_id
  /\ \A t \in {"dim_date", "fact_stock_history", "fact_transactions"} :
       \A k \in DOMAIN at_start[t] : k \in DOMAIN S[t] /\ S[t][k] = at_start[t][k]

\* C25: runs are deterministic in the supplied source date: the DimUser,
\* DimProduct, DimDate, FactStockHistory and FactTransaction rows a run writes
\* are made of the store it started from, the source snapshot and the source
\* date, and no field of them depends on the wall clock.
C25_SourceDateOnly ==
  (pc # "idle" /\ RUN_ID # NULL) =>
    /\ FromSnapshotAndSourceDate(conn)
    /\ pc = "done" => FromSnapshotAndSourceDate(db)

\* A run started on a day that is not its source date has loaded a
\* transaction and recorded a stock level.
C25_Witness ==
  /\ pc = "done"
  /\ raised = "none"
  /\ db.etl_run_log[RUN_ID].run_date # today
  /\ AddedRows(db, "fact_transactions") # {}
  /\ AddedRows(db, "fact_stock_history") # {}
  /\ AddedRows(db, "dim_user") # {}


\* The committed log rows of a run of one severity
PersistedRows(run_id, severity) ==
  {k \in DOMAIN db.etl_error_log : /\ db.etl_error_log[k].run_id = run_id
                                   /\ db.etl_error_log[k].severity = severity}

\* C26: in the finalized run record of every run, successful or failed, the
\* errors total equals the number of error-severity log rows persisted for
\* that run id, and the warnings total the number of warning-severity rows.
C26_TotalsMatchLog ==
  \A k \in DOMAIN db.etl_run_log :
    db.etl_run_log[k].ended_at # NULL
      => /\ db.etl_run_log[k].errors = Cardinality(PersistedRows(k, "error"))
         /\ db.etl_run_log[k].warnings = Cardinality(PersistedRows(k, "warning"))


\* The number of rows of table t committed since the run started
CommittedInserts(t) == Len(db[t]) - Len(at_start[t])

\* C27: in the finalized run record each per-table insert count equals the
\* number of rows the run inserted and committed into that table, a new
\* version opened for a changed record being an inserted row.
C27_InsertCounts ==
  (pc = "done" /\ RUN_ID # NULL) =>
    LET run == db.etl_run_log[RUN_ID]
    IN /\ run.rows_dim_user_inserted = CommittedInserts("dim_user")
       /\ run.rows_dim_product_inserted = CommittedInserts("dim_product")
       /\ run.rows_fact_transactions_inserted = CommittedInserts("fact_transactions")
       /\ run.rows_fact_stock_history_inserted = CommittedInserts("fact_stock_history")


\* Row after is row before, or row before was open and current and after is
\* the same row closed.
SameOrClosed(before, after) ==
  \/ after = before
  \/ /\ before.current_flag = 1
     /\ before.end_date = NULL
     /\ after.end_date # NULL
     /\ after = [before EXCEPT !.end_date = after.end_date, !.current_flag = 0]

\* C28: committed history is monotone across runs: no committed DimUser or
\* DimProduct row is ever deleted, the only change ever made to one is closing
\* it once, and no committed FactTransaction or FactStockHistory row is ever
\* updated or deleted.
C28_MonotoneHistory ==
  [][/\ \A t \in {"dim_user", "dim_product"} :
          \A k \in DOMAIN db[t] :
            k \in DOMAIN db'[t] /\ SameOrClosed(db[t][k], db'[t][k])
     /\ \A t \in {"fact_transactions", "fact_stock_history"} :
          \A k \in DOMAIN db[t] : k \in DOMAIN db'[t] /\ db'[t][k] = db[t][k]]_vars

\* After two runs the committed store holds a closed product version, its
\* successor, and fact rows of both runs.
C28_Witness ==
  /\ pc = "done"
  /\ RUN_ID = 2
  /\ Len(db.dim_product) = 2
  /\ db.dim_product[1].current_flag = 0
  /\ db.dim_product[2].current_flag = 1
  /\ Len(db.fact_transactions) = 2
  /\ Len(db.fact_stock_history) = 2


\* The row is an open current version of the user record, starting at start_date.
OpenUserVersion(row, user, start_date) ==
  /\ row.user_id = user.user_id /\ row.name = user.name /\ row.email = user.email
  /\ row.join_date = user.join_date
  /\ row.start_date = start_date /\ row.end_date = NULL /\ row.current_flag = 1

OpenProductVersion(row, product, start_date) ==
  /\ row.product_id = product.product_id /\ row.name = product.name
  /\ row.category = product.category /\ row.price = product.price
  /\ row.start_date = start_date /\ row.end_date = NULL /\ row.current_flag = 1

\* after is before with one row appended and no older row touched.
OneRowAppended(before, after) ==
  /\ Len(after) = Len(before) + 1
  /\ \A k \in DOMAIN before : after[k] = before[k]

\* after is before with row sk closed at end_date, one row appended and no
\* other row touched.
ClosedAndAppended(before, after, sk, end_date) ==
  /\ Len(after) = Len(before) + 1
  /\ after[sk] = [before[sk] EXCEPT !.end_date = end_date, !.current_flag = 0]
  /\ \A k \in DOMAIN before \ {sk} : after[k] = before[k]

UserSyncStep(user) ==
  LET cur == {k \in DOMAIN conn.dim_user :
                conn.dim_user[k].user_id = user.user_id /\ conn.dim_user[k].current_flag = 1}
  IN /\ cur = {} =>
          /\ OneRowAppended(conn.dim_user, conn'.dim_user)
          /\ OpenUserVersion(conn'.dim_user[Len(conn'.dim_user)], user, user.join_date)
          /\ res' = [res EXCEPT !.inserted = @ + 1]
     /\ \A sk \in cur :
          (conn.dim_user[sk].name # user.name \/ conn.dim_user[sk].email # user.email) =>
            /\ ClosedAndAppended(conn.dim_user, conn'.dim_user, sk, today - 1)
            /\ OpenUserVersion(conn'.dim_user[Len(conn'.dim_user)], user, today)
            /\ res' = [res EXCEPT !.updated = @ + 1]

ProductSyncStep(product) ==
  LET cur == {k \in DOMAIN conn.dim_product :
                /\ conn.dim_product[k].product_id = product.product_id
                /\ conn.dim_product[k].current_flag = 1}
  IN /\ cur = {} =>
          /\ OneRowAppended(conn.dim_product, conn'.dim_product)
          /\ OpenProductVersion(conn'.dim_product[Len(conn'.dim_product)], product, today)
          /\ res' = [res EXCEPT !.inserted = @ + 1]
     /\ \A sk \in cur :
          (\/ conn.dim_product[sk].name # product.name
           \/ conn.dim_product[sk].category # product.category
           \/ conn.dim_product[sk].price # product.price) =>
            /\ ClosedAndAppended(conn.dim_product, conn'.dim_product, sk, today - 1)
            /\ OpenProductVersion(conn'.dim_product[Len(conn'.dim_product)], product, today)
            /\ res' = [res EXCEPT !.updated = @ + 1]

\* C29: synchronizing a valid record whose business key has no current
\* version inserts one open current version (start_date = join_date for a
\* user, the source date for a product) and classifies it inserted; when the
\* current version differs in a tracked attribute, that version gets end_date
\* = source date - 1 day and current_flag = 0, an open current version with
\* start_date = source date is inserted, and the record is classified updated;
\* inserted + updated + unchanged equals the number of valid records processed.
C29_OpenAndCloseVersions ==
  [][/\ (pc = "dim_user" /\ pc' = "dim_user" /\ i' = i + 1)
          => UserSyncStep(valid_users[i + 1])
     /\ (pc = "dim_product" /\ pc' = "dim_product" /\ i' = i + 1)
          => ProductSyncStep(valid_products[i + 1])
     /\ pc' \in {"dim_user", "dim_product"}
          => res'.inserted + res'.updated + res'.unchanged = i']_vars

\* The product stage of a later run has replaced the version that an earlier
\* run inserted for the product.
C29_Witness ==
  /\ pc = "dim_product"
  /\ i = Len(valid_products)
  /\ res.updated = 1
  /\ Len(conn.dim_product) = 2
  /\ conn.dim_product[1].current_flag = 0
  /\ conn.dim_product[1].end_date = today - 1
  /\ conn.dim_product[2].current_flag = 1
  /\ conn.dim_product[2].start_date = today
  /\ conn.dim_product[1].start_date # today


\* The positions of main() in the order of its text, and the steps between
\* them: forward by one stage, or out of the run by an exception.
StageOrder ==
  {<<"idle", "validate">>, <<"done", "validate">>, <<"validate", "dim_user">>,
   <<"dim_user", "dim_product">>, <<"dim_product", "stock">>, <<"stock", "tx_begin">>,
   <<"tx_begin", "tx">>, <<"tx", "summary">>, <<"summary", "done">>}

Failures ==
  {<<"idle", "done">>, <<"done", "done">>, <<"validate", "done">>, <<"dim_user", "done">>,
   <<"dim_product", "done">>, <<"stock", "done">>, <<"tx_begin", "done">>,
   <<"tx", "done">>}

\* The connection's view of the table gained or changed a row in this step
\* (a rollback, which only takes uncommitted rows away, is not a write).
Written(t) ==
  /\ conn'[t] # conn[t]
  /\ conn'[t] # db[t]

NoUserVersionCovers(tx) ==
  ~ \E k \in DOMAIN conn.dim_user :
       /\ conn.dim_user[k].user_id = tx.user_id
       /\ conn.dim_user[k].start_date <= tx.date
       /\ (conn.dim_user[k].end_date = NULL \/ conn.dim_user[k].end_date >= tx.date)

NoProductVersionCovers(tx) ==
  ~ \E k \in DOMAIN conn.dim_product :
       /\ conn.dim_product[k].product_id = tx.product_id
       /\ conn.dim_product[k].start_date <= tx.date
       /\ (conn.dim_product[k].end_date = NULL \/ conn.dim_product[k].end_date >= tx.date)

\* The step appended exactly one log row, a warning about transaction tx_id
\* whose type is one of types.
OneWarningLogged(tx_id, types) ==
  /\ Len(conn'.etl_error_log) = Len(conn.etl_error_log) + 1
  /\ \A k \in DOMAIN conn.etl_error_log : conn'.etl_error_log[k] = conn.etl_error_log[k]
  /\ LET row == conn'.etl_error_log[Len(conn'.etl_error_log)]
     IN /\ row.severity = "warning"
        /\ row.entity = "transaction"
        /\ row.record_id = ToString(tx_id)
        /\ row.error_type \in types
        /\ row.run_id = RUN_ID
  /\ WARNING_COUNT' = WARNING_COUNT + 1
  /\ ERROR_COUNT' = ERROR_COUNT

\* C31: a validated transaction whose date no DimUser version, or no
\* DimProduct version, covers gets no fact row, one warning-severity orphan
\* log entry and a skipped count, and the loader goes on with the remaining
\* transactions without raising; the stage can still commit and the run end
\* with status success.
C31_OrphanSkipped ==
  [][(pc = "tx" /\ i < Len(new_transactions) /\ i' = i + 1
        /\ (\/ NoUserVersionCovers(new_transactions[i + 1])
            \/ NoProductVersionCovers(new_transactions[i + 1])))
       => /\ conn'.fact_transactions = conn.fact_transactions
          /\ OneWarningLogged(new_transactions[i + 1].tx_id, {"orphan_user", "orphan_product"})
          /\ res' = [res EXCEPT !.skipped = @ + 1]
          /\ pc' = "tx"
          /\ raised' = "none"]_vars

\* A run that skipped an orphan transaction has committed its transaction
\* stage, loaded another transaction and ended with status success.
C31_Witness ==
  /\ pc = "done"
  /\ success
  /\ exit_code = 0
  /\ db.etl_run_log[RUN_ID].status = "success"
  /\ \E k \in DOMAIN db.etl_error_log :
       /\ db.etl_error_log[k].run_id = RUN_ID
       /\ db.etl_error_log[k].error_type \in {"orphan_user", "orphan_product"}
       /\ db.etl_error_log[k].severity = "warning"
  /\ Len(valid_transactions) = 2
  /\ Len(db.fact_transactions) = Len(at_start.fact_transactions) + 1


\* Whichever product version the lookup returns for the transaction,
\* fact_transactions already holds a row with the transaction's id and that
\* product_sk.
AlreadyLoaded(tx) ==
  LET product_sks == ProductVersionsAt(conn.dim_product, tx.product_id, tx.date)
  IN /\ product_sks # {}
     /\ \A sk \in product_sks :
          \E k \in DOMAIN conn.fact_transactions :
            /\ conn.fact_transactions[k].transaction_id = tx.tx_id
            /\ conn.fact_transactions[k].product_sk = sk

\* C32: when the INSERT of a fact row collides with a row of the same
\* (transaction_id, product_sk), the loader logs one duplicate_tx_id warning,
\* counts the record as skipped, keeps the fact rows inserted so far and
\* goes on with the next transaction; inserted + skipped equals the number
\* of new transactions processed.
C32_DuplicateKeySkipped ==
  [][/\ (pc = "tx" /\ i < Len(new_transactions) /\ i' = i + 1
           /\ ~NoUserVersionCovers(new_transactions[i + 1])
           /\ ~NoProductVersionCovers(new_transactions[i + 1])
           /\ AlreadyLoaded(new_transactions[i + 1]))
          => /\ conn'.fact_transactions = conn.fact_transactions
             /\ OneWarningLogged(new_transactions[i + 1].tx_id, {"duplicate_tx_id"})
             /\ res' = [res EXCEPT !.skipped = @ + 1]
             /\ pc' = "tx"
             /\ raised' = "none"
     /\ pc' = "tx" => res'.inserted + res'.skipped = i']_vars

\* The loader has inserted the first transaction of the batch and skipped
\* the second one, which repeats its id; the inserted row is still there.
C32_Witness ==
  /\ pc = "tx"
  /\ i = 2
  /\ res.inserted = 1
  /\ res.skipped = 1
  /\ new_transactions[1].tx_id = new_transactions[2].tx_id
  /\ Len(conn.fact_transactions) = Len(db.fact_transactions) + 1
  /\ conn.etl_error_log[Len(conn.etl_error_log)].error_type = "duplicate_tx_id"


\* In the table, current_flag = 1 goes with an open end_date and the other
\* way round, and every business key found in it has exactly one current row
\* (key[k] is the business key of row k).
OneOpenCurrentVersion(dim, key) ==
  /\ \A k \in DOMAIN dim :
       /\ dim[k].current_flag \in {0, 1}
       /\ dim[k].current_flag = 1 <=> dim[k].end_date = NULL
  /\ \A k \in DOMAIN dim :
       Cardinality({m \in DOMAIN dim : key[m] = key[k] /\ dim[m].current_flag = 1}) = 1

\* C33: in DimUser and DimProduct, as committed and as the connection sees
\* them, a row has current_flag = 1 exactly when its end_date is NULL, and
\* every business key with at least one row has exactly one current row,
\* also when its source record is rejected or missing in a later run.
C33_ExactlyOneCurrent ==
  \A store \in {db, conn} :
    /\ OneOpenCurrentVersion(store.dim_user,
                             [k \in DOMAIN store.dim_user |-> store.dim_user[k].user_id])
    /\ OneOpenCurrentVersion(store.dim_product,
                             [k \in DOMAIN store.dim_product |-> store.dim_product[k].product_id])

\* A later run in which no user record was valid has ended; the version an
\* earlier run opened is still the current one.
C33_Witness ==
  /\ pc = "done"
  /\ raised = "none"
  /\ RUN_ID = 2
  /\ valid_users = << >>
  /\ Len(db.dim_user) = 1
  /\ db.dim_user[1].current_flag = 1
  /\ db.dim_user[1].end_date = NULL


\* Every closed version of the table has start_date <= end_date.
ClosedIntervalsValid(dim) ==
  \A k \in DOMAIN dim : dim[k].end_date # NULL => dim[k].start_date <= dim[k].end_date

\* C34: when the runs execute on strictly increasing source dates, every
\* closed DimUser and DimProduct version has start_date <= end_date, whatever
\* non-null join_date the users have.
C34_ValidIntervals ==
  StrictlyIncreasingDates =>
    /\ ClosedIntervalsValid(db.dim_user)
    /\ ClosedIntervalsValid(db.dim_product)


\* Every fact row of the store refers to rows that exist in the store.
ForeignKeysResolve(store) ==
  LET date_ids == {store.dim_date[k].date_id : k \in DOMAIN store.dim_date}
  IN /\ \A k \in DOMAIN store.fact_transactions :
          /\ store.fact_transactions[k].date_id \in date_ids
          /\ store.fact_transactions[k].user_sk \in DOMAIN store.dim_user
          /\ store.fact_transactions[k].product_sk \in DOMAIN store.dim_product
     /\ \A k \in DOMAIN store.fact_stock_history :
          /\ store.fact_stock_history[k].date_id \in date_ids
          /\ store.fact_stock_history[k].product_sk \in DOMAIN store.dim_product

\* The step appended one row to table t of the connection.
RowAppended(t) == Len(conn'[t]) = Len(conn[t]) + 1

LastRow(t) == conn'[t][Len(conn'[t])]

\* C35: every committed FactTransaction and FactStockHistory row has a date
\* key found in DimDate and surrogate keys found in DimUser / DimProduct, and
\* the dimension row a fact refers to has the business id of the source
\* record the fact was built from.
C35_ReferentialIntegrity ==
  [][/\ ForeignKeysResolve(db')
     /\ (pc = "tx" /\ i < Len(new_transactions) /\ RowAppended("fact_transactions")) =>
          /\ LastRow("fact_transactions").transaction_id = new_transactions[i + 1].tx_id
          /\ conn'.dim_user[LastRow("fact_transactions").user_sk].user_id
               = new_transactions[i + 1].user_id
          /\ conn'.dim_product[LastRow("fact_transactions").product_sk].product_id
               = new_transactions[i + 1].product_id
     /\ (pc = "stock" /\ i < Len(valid_products) /\ RowAppended("fact_stock_history")) =>
          conn'.dim_product[LastRow("fact_stock_history").product_sk].product_id
            = valid_products[i + 1].product_id]_vars

\* A run has committed transactions of two different products and the stock
\* of both.
C35_Witness ==
  /\ pc = "done"
  /\ success
  /\ Len(db.fact_transactions) = 2
  /\ db.dim_product[db.fact_transactions[1].product_sk].product_id
       # db.dim_product[db.fact_transactions[2].product_sk].product_id
  /\ Len(db.fact_stock_history) >= 2


\* The rows of fact table t that the current run has written so far
WrittenByRun(t) == {conn[t][k] : k \in (Len(at_start[t]) + 1)..Len(conn[t])}

\* C36: every FactTransaction and FactStockHistory row a run writes has the
\* run's source date as load date and as date key; the transactions a run
\* fetches, and so the ones it loads, all carry the source date.
C36_SourceDateOnly ==
  (pc \notin {"idle", "validate"} /\ RUN_ID # NULL) =>
    /\ \A t \in {"fact_transactions", "fact_stock_history"} :
         \A row \in WrittenByRun(t) :
           /\ row.load_date = today
           /\ row.date_id = 20260100 + today
    /\ \A k \in DOMAIN oltp_transactions : oltp_transactions[k].date = [fmt |-> "dash", day |-> today]
    /\ \A k \in DOMAIN valid_transactions : valid_transactions[k].date = today

\* A second run has written a transaction and a stock level next to the
\* rows a run for another source date had loaded.
C36_Witness ==
  /\ pc = "done"
  /\ success
  /\ RUN_ID = 2
  /\ Len(db.fact_transactions) = 2
  /\ Len(db.fact_stock_history) = 2
  /\ Len(at_start.fact_transactions) = 1
  /\ Len(at_start.fact_stock_history) = 1
  /\ db.fact_transactions[1].load_date # today
  /\ db.fact_stock_history[1].load_date # today


\* What the other implementation returns for the batch just validated
OtherValidated ==
  IF pc = "DataValidator"
  THEN main_validate(oltp_users, oltp_products, oltp_transactions)
  ELSE DataValidator_validate_all(oltp_users, oltp_products, oltp_transactions)

SameOutcome(a, b) == a.valid = b.valid /\ a.rejected = b.rejected

\* C37: for every batch the class-based DataValidator and the free-function
\* validators accept the same users, products and transactions, reject the
\* same ones and return the same normalized accepted transactions.
C37_ValidatorsAgree ==
  pc \in {"dim_user", "DataValidator"} =>
    /\ valid_users = OtherValidated.users.valid
    /\ valid_products = OtherValidated.products.valid
    /\ valid_transactions = OtherValidated.transactions.valid
    /\ SameOutcome(Validated.users, OtherValidated.users)
    /\ SameOutcome(Validated.products, OtherValidated.products)
    /\ SameOutcome(Validated.transactions, OtherValidated.transactions)


\* The quantities by which the free-function validator, and the class-based
\* one, divide while validating the batch of the state
Divisors ==
  LET v == main_validate(oltp_users, oltp_products, oltp_transactions)
      ids(seq) == {seq[k].user_id : k \in DOMAIN seq}
      pids == {v.products.valid[k].product_id : k \in DOMAIN v.products.valid}
  IN {oltp_transactions[k].quantity :
        k \in {m \in DOMAIN oltp_transactions :
                 ReachesPriceCheck(oltp_transactions[m], ids(v.users.valid), pids,
                                   PriceMap(v.products.valid))}}

DataValidator_Divisors ==
  LET v == DataValidator_validate_all(oltp_users, oltp_products, oltp_transactions)
      ids(seq) == {seq[k].user_id : k \in DOMAIN seq}
      pids == {v.products.valid[k].product_id : k \in DOMAIN v.products.valid}
  IN {oltp_transactions[k].quantity :
        k \in {m \in DOMAIN oltp_transactions :
                 DataValidator_ReachesPriceCheck(oltp_transactions[m], ids(v.users.valid),
                                                 pids, PriceMap(v.products.valid))}}

\* C38: in both validator implementations total / quantity is evaluated only
\* for transactions whose quantity is strictly positive, for every batch,
\* batches with quantity 0 included.
C38_NoDivisionByZero ==
  pc \in {"dim_user", "DataValidator"} =>
    /\ \A q \in Divisors : q > 0
    /\ \A q \in DataValidator_Divisors : q > 0

\* A batch with a transaction of quantity 0 for a priced product of a valid
\* user, followed by one whose price was checked, has been validated.
C38_Witness ==
  /\ pc \in {"dim_user", "DataValidator"}
  /\ Len(oltp_transactions) = 2
  /\ oltp_transactions[1].quantity = 0
  /\ oltp_transactions[1].product_id = oltp_transactions[2].product_id
  /\ oltp_transactions[2].quantity = 3
  /\ Divisors = {3}
  /\ DataValidator_Divisors = {3}
  /\ Len(valid_transactions) = 1

====
